---- MODULE Spec2Model ----
(***************************************************************************)
(* A model of the protocol translation and streaming engine of             *)
(* antigravity2api-nodejs: the tool-name and thought-signature caches, the *)
(* OpenAI -> upstream request translator, the LineBuffer pool and the      *)
(* streaming parser, and the 429 retry wrapper.                            *)
(*                                                                         *)
(* Strings the code inspects character by character (tool names, message   *)
(* contents, stream text) are sequences of one-character strings.  Model   *)
(* names, which the code only tests with includes / startsWith / ===, are  *)
(* sequences of tokens ("claude", "-thinking", ...).  A JavaScript value   *)
(* that is falsy (undefined, null, '') is the empty string "" or the empty *)
(* sequence << >>.                                                         *)
(***************************************************************************)
EXTENDS Integers, Sequences, FiniteSets, TLC

VARIABLES
  now,                      \* Date.now(), in ticks
  toolNameMap,              \* toolNameCache.js: Map, in insertion order
  reasoningSignatureCache,  \* thoughtSignatureCache.js: Map, in insertion order
  toolSignatureCache,       \* thoughtSignatureCache.js: Map, in insertion order
  returned,                 \* what the last get of a cache returned, and for which key
  name,                     \* sanitizeToolName: the value it is called with
  cleaned,                  \* sanitizeToolName: the string it returned
  sanPc,                    \* "input" before the call, "done" after
  trPc,                     \* "idle", "translated" (request built), "responded"
  reqIn,                    \* the chat request generateRequestBody was called with
  requestBody,              \* the upstream request body it returned
  data,                     \* the upstream body generateAssistantResponseNoStream got
  response,                 \* what generateAssistantResponseNoStream returned
  maxRetries,               \* with429Retry: the budget it is called with
  attempt,                  \* with429Retry: the attempt counter
  rtPc,                     \* "calling" (awaiting fn), "returned", "thrown"
  fnCalls,                  \* how each call of fn settled, in order
  settled,                  \* what with429Retry returned or threw
  useAxios,                 \* client.js: the transport in use
  lineBufferPool,           \* client.js: the pool, a stack of LineBuffer instances
  lineBuffers,              \* the LineBuffer instances created so far
  req,                      \* the calls of generateAssistantResponse
  srv,                      \* server.js: the handler of one chat completion request
  res,                      \* the response object of that request
  heartbeatTimer,           \* the interval timer createHeartbeat made
  file,                     \* TokenStore: the content of the accounts file
  tokenStore,               \* the TokenStore instance: _cache, _cacheTime, _lastReadOk
  inFlight                  \* the readAll, writeAll and mergeActiveTokens calls in flight

cacheVars == <<now, toolNameMap, reasoningSignatureCache, toolSignatureCache, returned>>

sanVars == <<name, cleaned, sanPc>>

storeVars == <<file, tokenStore, inFlight>>

trVars == <<trPc, reqIn, requestBody, data, response>>

(***************************************************************************)
(* Bounds.  The ceilings are the source's constants scaled down (512, 256, *)
(* 256 entries): the code is parametric in them, and the model keeps one   *)
(* key more than each ceiling admits.  The clock counts in units of the    *)
(* TTL (30 minutes).                                                       *)
(***************************************************************************)
MAX_ENTRIES == 2
MAX_REASONING_ENTRIES == 1
MAX_TOOL_ENTRIES == 1
ENTRY_TTL_MS == 1
MaxTime == 2
MaxNameLen == 3
MaxMsgs == 3

NULL == "null"

Str(s) == [type |-> "string", s |-> s]

Null == [type |-> "null", s |-> << >>]

(***************************************************************************)
(* JavaScript Map: entries [key, val, ts] in insertion order.  set() on an *)
(* existing key replaces the value in place; delete() keeps the order of   *)
(* the others.                                                             *)
(***************************************************************************)
MapHas(m, k) == \E i \in 1..Len(m) : m[i].key = k

MapIdx(m, k) == CHOOSE i \in 1..Len(m) : m[i].key = k

MapGet(m, k) == m[MapIdx(m, k)]

\* a set that moves a key it rewrites to the end of the iteration order
MapSetMovesToEnd(m, k, v, t) ==
  Append(SelectSeq(m, LAMBDA e : e.key # k), [key |-> k, val |-> v, ts |-> t])

MapSet(m, k, v, t) ==
  IF MapHas(m, k)
    THEN [m EXCEPT ![MapIdx(m, k)] = [key |-> k, val |-> v, ts |-> t]]
    ELSE Append(m, [key |-> k, val |-> v, ts |-> t])

MapDelete(m, k) == SelectSeq(m, LAMBDA e : e.key # k)

MapKeys(m) == {m[i].key : i \in 1..Len(m)}

\* toolNameCache.js makeKey: `${sessionId || ''}::${model || ''}::${safeName || ''}`
makeKey(sessionId, model, safeName) == <<sessionId, model, safeName>>

\* thoughtSignatureCache.js makeKey: `${sessionId || ''}::${model || ''}`
makeSigKey(sessionId, model) == <<sessionId, model>>

\* a pruneSize that keeps one entry too many
pruneSizeOffByOne(m, targetSize) ==
  IF Len(m) <= targetSize + 1 THEN m
  ELSE SubSeq(m, Len(m) - targetSize, Len(m))

\* pruneSize: delete the first (size - targetSize) keys in iteration order
pruneSize(m, targetSize) ==
  IF Len(m) <= targetSize THEN m
  ELSE SubSeq(m, (Len(m) - targetSize) + 1, Len(m))

\* a loop that deletes from the end of the iteration order
pruneMapNewestFirst(map, targetSize) ==
  IF Len(map) <= targetSize THEN map
  ELSE SubSeq(map, 1, targetSize)

\* pruneMap: the same loop, on the map it is given
pruneMap(map, targetSize) ==
  IF Len(map) <= targetSize THEN map
  ELSE SubSeq(map, (Len(map) - targetSize) + 1, Len(map))

\* pruneExpired: delete every entry with now - ts > ENTRY_TTL_MS
pruneExpired(map, t) == SelectSeq(map, LAMBDA e : ~(t - e.ts > ENTRY_TTL_MS))

\* a cleanup that drops the newest entries and keeps the oldest
toolNameCleanupNewestFirst(m, pressure) ==
  CASE pressure = "medium"   -> SubSeq(m, 1, IF Len(m) <= MAX_ENTRIES \div 2
                                               THEN Len(m) ELSE MAX_ENTRIES \div 2)
    [] pressure = "high"     -> SubSeq(m, 1, IF Len(m) <= MAX_ENTRIES \div 4
                                               THEN Len(m) ELSE MAX_ENTRIES \div 4)
    [] pressure = "critical" -> << >>
    [] OTHER                 -> m

\* the cleanup callback toolNameCache.js registers with the memory manager
toolNameCleanup(m, pressure) ==
  CASE pressure = "medium"   -> pruneSize(m, MAX_ENTRIES \div 2)
    [] pressure = "high"     -> pruneSize(m, MAX_ENTRIES \div 4)
    [] pressure = "critical" -> << >>
    [] OTHER                 -> m

\* the cleanup callback thoughtSignatureCache.js registers, for one of its maps
signatureCleanup(map, max, pressure) ==
  CASE pressure = "medium"   -> pruneMap(map, max \div 2)
    [] pressure = "high"     -> pruneMap(map, max \div 4)
    [] pressure = "critical" -> << >>
    [] OTHER                 -> map

Pressures == {"normal", "medium", "high", "critical"}

(***************************************************************************)
(* The cache operations as functions of the store: the new store, and for  *)
(* a get the value returned.  The actions below and the translator and     *)
(* parser further down all go through these.                               *)
(***************************************************************************)
setToolNameMappingIn(m, t, sessionId, model, safeName, originalName) ==
  IF safeName = << >> \/ originalName = << >> \/ safeName = originalName THEN m
  ELSE pruneSize(MapSet(m, makeKey(sessionId, model, safeName), originalName, t),
                 MAX_ENTRIES)

\* a lookup for which an entry expires as soon as its age reaches the TTL
getOriginalToolNameInExpiresAtTtl(m, t, sessionId, model, safeName) ==
  LET key == makeKey(sessionId, model, safeName) IN
  IF safeName = << >> THEN <<m, Null>>
  ELSE IF ~MapHas(m, key) THEN <<m, Null>>
  ELSE IF t - MapGet(m, key).ts >= ENTRY_TTL_MS THEN <<MapDelete(m, key), Null>>
  ELSE <<m, Str(MapGet(m, key).val)>>

\* <<store after, value returned>>
getOriginalToolNameIn(m, t, sessionId, model, safeName) ==
  LET key == makeKey(sessionId, model, safeName) IN
  IF safeName = << >> THEN <<m, Null>>
  ELSE IF ~MapHas(m, key) THEN <<m, Null>>
  ELSE IF t - MapGet(m, key).ts > ENTRY_TTL_MS THEN <<MapDelete(m, key), Null>>
  ELSE <<m, Str(MapGet(m, key).val)>>

setSignatureIn(map, max, t, sessionId, model, signature) ==
  IF signature = "" THEN map
  ELSE pruneMap(MapSet(map, makeSigKey(sessionId, model), signature, t), max)

\* a lookup that answers null for an expired entry and leaves it in the store
getSignatureInKeepsExpired(map, t, sessionId, model) ==
  LET key == makeSigKey(sessionId, model) IN
  IF ~MapHas(map, key) THEN <<map, NULL>>
  ELSE IF t - MapGet(map, key).ts > ENTRY_TTL_MS THEN <<map, NULL>>
  ELSE <<map, MapGet(map, key).val>>

\* <<store after, value returned>>
getSignatureIn(map, t, sessionId, model) ==
  LET key == makeSigKey(sessionId, model) IN
  IF ~MapHas(map, key) THEN <<map, NULL>>
  ELSE IF t - MapGet(map, key).ts > ENTRY_TTL_MS THEN <<MapDelete(map, key), NULL>>
  ELSE <<map, MapGet(map, key).val>>

(***************************************************************************)
(* Cache actions.  A get changes the store only; the ...Returns actions    *)
(* further record the call, its key and the value it returned: null, or    *)
(* the stored string.                                                      *)
(***************************************************************************)
NoReturn == [call |-> "", key |-> << >>, value |-> Null]

\* the signature a get returned, as a value
SignatureValue(signature) == IF signature = NULL THEN Null ELSE Str(<<signature>>)

setToolNameMapping(sessionId, model, safeName, originalName) ==
  /\ toolNameMap' = setToolNameMappingIn(toolNameMap, now, sessionId, model,
                                         safeName, originalName)
  /\ UNCHANGED <<now, reasoningSignatureCache, toolSignatureCache, returned>>

getOriginalToolName(sessionId, model, safeName) ==
  LET r == getOriginalToolNameIn(toolNameMap, now, sessionId, model, safeName) IN
  /\ toolNameMap' = r[1]
  /\ UNCHANGED <<now, reasoningSignatureCache, toolSignatureCache>>

getOriginalToolNameReturns(sessionId, model, safeName) ==
  /\ getOriginalToolName(sessionId, model, safeName)
  /\ returned' = [call |-> "getOriginalToolName",
                  key |-> makeKey(sessionId, model, safeName),
                  value |-> getOriginalToolNameIn(toolNameMap, now, sessionId, model,
                                                  safeName)[2]]

setReasoningSignature(sessionId, model, signature) ==
  /\ reasoningSignatureCache' =
       setSignatureIn(reasoningSignatureCache, MAX_REASONING_ENTRIES, now,
                      sessionId, model, signature)
  /\ UNCHANGED <<now, toolNameMap, toolSignatureCache, returned>>

getReasoningSignature(sessionId, model) ==
  LET r == getSignatureIn(reasoningSignatureCache, now, sessionId, model) IN
  /\ reasoningSignatureCache' = r[1]
  /\ UNCHANGED <<now, toolNameMap, toolSignatureCache>>

getReasoningSignatureReturns(sessionId, model) ==
  /\ getReasoningSignature(sessionId, model)
  /\ returned' = [call |-> "getReasoningSignature",
                  key |-> makeSigKey(sessionId, model),
                  value |-> SignatureValue(getSignatureIn(reasoningSignatureCache, now,
                                                          sessionId, model)[2])]

setToolSignature(sessionId, model, signature) ==
  /\ toolSignatureCache' =
       setSignatureIn(toolSignatureCache, MAX_TOOL_ENTRIES, now,
                      sessionId, model, signature)
  /\ UNCHANGED <<now, toolNameMap, reasoningSignatureCache, returned>>

getToolSignature(sessionId, model) ==
  LET r == getSignatureIn(toolSignatureCache, now, sessionId, model) IN
  /\ toolSignatureCache' = r[1]
  /\ UNCHANGED <<now, toolNameMap, reasoningSignatureCache>>

getToolSignatureReturns(sessionId, model) ==
  /\ getToolSignature(sessionId, model)
  /\ returned' = [call |-> "getToolSignature",
                  key |-> makeSigKey(sessionId, model),
                  value |-> SignatureValue(getSignatureIn(toolSignatureCache, now,
                                                          sessionId, model)[2])]

\* the setInterval callback of toolNameCache.js
ToolNameSweep ==
  /\ toolNameMap' = pruneExpired(toolNameMap, now)
  /\ UNCHANGED <<now, reasoningSignatureCache, toolSignatureCache, returned>>

\* the setInterval callback of thoughtSignatureCache.js
SignatureSweep ==
  /\ reasoningSignatureCache' = pruneExpired(reasoningSignatureCache, now)
  /\ toolSignatureCache' = pruneExpired(toolSignatureCache, now)
  /\ UNCHANGED <<now, toolNameMap, returned>>

\* a memory-pressure signal: the memory manager runs the registered callbacks
MemoryPressureSignal(pressure) ==
  /\ toolNameMap' = toolNameCleanup(toolNameMap, pressure)
  /\ reasoningSignatureCache' =
       signatureCleanup(reasoningSignatureCache, MAX_REASONING_ENTRIES, pressure)
  /\ toolSignatureCache' =
       signatureCleanup(toolSignatureCache, MAX_TOOL_ENTRIES, pressure)
  /\ UNCHANGED <<now, returned>>

\* the clock advances by d
Tick(d) ==
  /\ now + d <= MaxTime
  /\ now' = now + d
  /\ UNCHANGED <<toolNameMap, reasoningSignatureCache, toolSignatureCache, returned>>

(***************************************************************************)
(* sanitizeToolName.  A JavaScript value is [type, s]: a string carries    *)
(* its characters (UTF-16 code units) in s.                                *)
(***************************************************************************)
Undefined == [type |-> "undefined", s |-> << >>]

Number5 == [type |-> "number", s |-> << >>]

Letters == {"a", "b", "c", "d", "e", "f", "g", "h", "i", "j", "k", "l", "m",
            "n", "o", "p", "q", "r", "s", "t", "u", "v", "w", "x", "y", "z",
            "A", "B", "C", "D", "E", "F", "G", "H", "I", "J", "K", "L", "M",
            "N", "O", "P", "Q", "R", "S", "T", "U", "V", "W", "X", "Y", "Z"}

Digits == {"0", "1", "2", "3", "4", "5", "6", "7", "8", "9"}

\* the characters the class [a-zA-Z0-9_-] accepts
LegalChars == Letters \cup Digits \cup {"_", "-"}

MaxToolNameLen == 128

TOOL == <<"t", "o", "o", "l">>

\* name.replace(/[^a-zA-Z0-9_-]/g, '_')
ReplaceIllegal(s) == [i \in 1..Len(s) |-> IF s[i] \in LegalChars THEN s[i] ELSE "_"]

\* the index of the first / last character that is not '_' (0 when there is none)
FirstNonUnderscore(s) ==
  IF \A i \in 1..Len(s) : s[i] = "_" THEN 0
  ELSE CHOOSE i \in 1..Len(s) : s[i] # "_" /\ \A j \in 1..(i - 1) : s[j] = "_"

LastNonUnderscore(s) ==
  IF \A i \in 1..Len(s) : s[i] = "_" THEN 0
  ELSE CHOOSE i \in 1..Len(s) : s[i] # "_" /\ \A j \in (i + 1)..Len(s) : s[j] = "_"

\* cleaned.replace(/^_+|_+$/g, '')
StripUnderscores(s) ==
  IF FirstNonUnderscore(s) = 0 THEN << >>
  ELSE SubSeq(s, FirstNonUnderscore(s), LastNonUnderscore(s))

\* a sanitizeToolName without the slice(0, 128)
sanitizeToolNameNoSlice(n) ==
  IF n.type # "string" \/ n.s = << >> THEN TOOL
  ELSE LET stripped == StripUnderscores(ReplaceIllegal(n.s))
       IN  IF stripped = << >> THEN TOOL ELSE stripped

sanitizeToolName(n) ==
  IF n.type # "string" \/ n.s = << >> THEN TOOL
  ELSE LET stripped == StripUnderscores(ReplaceIllegal(n.s))
           nonEmpty == IF stripped = << >> THEN TOOL ELSE stripped
       IN  IF Len(nonEmpty) > MaxToolNameLen
             THEN SubSeq(nonEmpty, 1, MaxToolNameLen)
             ELSE nonEmpty

(***************************************************************************)
(* The names sanitizeToolName is checked on: every string of at most       *)
(* MaxNameLen characters over a small alphabet of legal and illegal        *)
(* characters, names around the 128 limit, and values that are no string.  *)
(***************************************************************************)
NameAlphabet == {"a", "Z", "7", "_", "-", " ", "!"}

RECURSIVE StringsUpTo(_, _)
StringsUpTo(alphabet, n) ==
  IF n = 0 THEN {<< >>}
  ELSE LET shorter == StringsUpTo(alphabet, n - 1)
       IN  shorter \cup {Append(s, c) : s \in shorter, c \in alphabet}

Rep(n, c) == [i \in 1..n |-> c]

LongNames ==
  {Rep(n, c) : n \in (MaxToolNameLen - 1)..(MaxToolNameLen + 2), c \in {"a", "!", "_"}}
  \cup {<<"_">> \o Rep(MaxToolNameLen + 1, "a"),
        Rep(MaxToolNameLen - 1, "a") \o <<"!", "a">>,
        Rep(MaxToolNameLen, "!") \o <<"a">>}

NameInputs ==
  {Str(s) : s \in StringsUpTo(NameAlphabet, MaxNameLen) \cup LongNames}
  \cup {Undefined, Number5}

SanitizeInit ==
  /\ name \in NameInputs
  /\ cleaned = << >>
  /\ sanPc = "input"

Sanitize ==
  /\ sanPc = "input"
  /\ cleaned' = sanitizeToolName(name)
  /\ sanPc' = "done"
  /\ UNCHANGED name

SanitizeIdle ==
  /\ name = Undefined
  /\ cleaned = << >>
  /\ sanPc = "idle"

CacheInit ==
  /\ now = 0
  /\ toolNameMap = << >>
  /\ reasoningSignatureCache = << >>
  /\ toolSignatureCache = << >>
  /\ returned = NoReturn

(***************************************************************************)
(* Request translator (utils.js).                                          *)
(*                                                                         *)
(* A message is [role, content, reasoning_content, thoughtSignature,       *)
(* tool_calls, tool_call_id]; a tool call is [id, name, arguments,         *)
(* thoughtSignature], name being function.name.  String contents only:     *)
(* the image parts of a multimodal content and of a tool output are not    *)
(* modelled.  An upstream part is                                          *)
(*   [kind, text, thought, thoughtSignature, id, name, args, msg, call]    *)
(* with kind "text" ({text}, {text, thought: true}, {text,                 *)
(* thoughtSignature}), "functionCall" or "functionResponse"; msg and call  *)
(* record which message and which of its tool calls produced the part.     *)
(***************************************************************************)
CLAUDE_THOUGHT_SIGNATURE == "CLAUDE_THOUGHT_SIGNATURE"

GEMINI_THOUGHT_SIGNATURE == "GEMINI_THOUGHT_SIGNATURE"

TOOL_THOUGHT_SIGNATURE == "TOOL_THOUGHT_SIGNATURE"

DEFAULT_THOUGHT_SIGNATURE == CLAUDE_THOUGHT_SIGNATURE

Contains(seq, x) == \E i \in 1..Len(seq) : seq[i] = x

\* String.prototype.toLowerCase, on the tokens of a model name
LowerToken(tok) ==
  CASE tok = "Claude" -> "claude"
    [] tok = "GEMINI" -> "gemini"
    [] OTHER          -> tok

toLowerCase(modelName) == [i \in 1..Len(modelName) |-> LowerToken(modelName[i])]

\* a getThoughtSignatureForModel that never answers the Gemini signature
getThoughtSignatureForModelNoGemini(actualModelName) ==
  IF actualModelName = << >> THEN DEFAULT_THOUGHT_SIGNATURE
  ELSE IF Contains(toLowerCase(actualModelName), "claude") THEN CLAUDE_THOUGHT_SIGNATURE
  ELSE DEFAULT_THOUGHT_SIGNATURE

getThoughtSignatureForModel(actualModelName) ==
  IF actualModelName = << >> THEN DEFAULT_THOUGHT_SIGNATURE
  ELSE IF Contains(toLowerCase(actualModelName), "claude") THEN CLAUDE_THOUGHT_SIGNATURE
  ELSE IF Contains(toLowerCase(actualModelName), "gemini") THEN GEMINI_THOUGHT_SIGNATURE
  ELSE DEFAULT_THOUGHT_SIGNATURE

modelMapping(modelName) ==
  CASE modelName = <<"claude", "-sonnet-4-5", "-thinking">> -> <<"claude", "-sonnet-4-5">>
    [] modelName = <<"claude", "-opus-4-5">> -> <<"claude", "-opus-4-5", "-thinking">>
    [] modelName = <<"gemini", "-2.5-flash", "-thinking">> -> <<"gemini", "-2.5-flash">>
    [] OTHER -> modelName

isEnableThinking(modelName) ==
  \/ Contains(modelName, "-thinking")
  \/ modelName = <<"gemini", "-2.5-pro">>
  \/ (Len(modelName) >= 2 /\ modelName[1] = "gemini" /\ modelName[2] = "-3-pro-")
  \/ modelName = <<"rev19-uic3-1p">>
  \/ modelName = <<"gpt-oss-120b-medium">>

IsSpace(c) == c \in {" ", "\n", "\t"}

\* String.prototype.trimEnd
RECURSIVE trimEnd(_)
trimEnd(str) ==
  IF str = << >> THEN << >>
  ELSE IF IsSpace(str[Len(str)]) THEN trimEnd(SubSeq(str, 1, Len(str) - 1))
  ELSE str

RECURSIVE trimStart(_)
trimStart(str) ==
  IF str = << >> THEN << >>
  ELSE IF IsSpace(str[1]) THEN trimStart(Tail(str))
  ELSE str

\* String.prototype.trim
trim(str) == trimStart(trimEnd(str))

Part(kind, text, thought, sig, id, nm, args, mi, ci) ==
  [kind |-> kind, text |-> text, thought |-> thought, thoughtSignature |-> sig,
   id |-> id, name |-> nm, args |-> args, msg |-> mi, call |-> ci]

\* a placeholder text that is the empty string when the message has no reasoning
reasoningTextEmpty(message) == message.reasoning_content

\* the text of the thought part: the message's reasoning, else one blank
reasoningTextOf(message) ==
  IF Len(message.reasoning_content) > 0 THEN message.reasoning_content
  ELSE <<" ">>

\* an own || cached || fallback that prefers the cached signature
firstTruthyCachedFirst(own, cached, fallback) ==
  IF cached # NULL THEN cached
  ELSE IF own # "" THEN own
  ELSE fallback

\* own || cached || fallback
firstTruthy(own, cached, fallback) ==
  IF own # "" THEN own
  ELSE IF cached # NULL THEN cached
  ELSE fallback

\* handleUserMessage (text part only)
handleUserMessage(message, contents, mi) ==
  Append(contents,
         [role |-> "user",
          parts |-> <<Part("text", message.content, FALSE, "", "", << >>, "", mi, 0)>>])

(***************************************************************************)
(* handleAssistantMessage.  st is [contents, toolNameMap,                  *)
(* reasoningSignatureCache, toolSignatureCache]: the turns built so far    *)
(* and the stores, which the tool-name writes and the signature reads      *)
(* (a read deletes an expired entry) go through.                           *)
(***************************************************************************)
\* message.tool_calls.map(...): <<parts, toolNameMap, toolSignatureCache>>
\* after the calls from index ci on
RECURSIVE antigravityTools(_, _, _, _, _, _, _, _, _)
antigravityTools(calls, ci, acc, tnm, tsc, enableThinking, actualModelName, sessionId, mi) ==
  IF ci > Len(calls) THEN <<acc, tnm, tsc>>
  ELSE
    LET toolCall == calls[ci]
        originalName == toolCall.name
        safeName == sanitizeToolName(Str(originalName))
        tnm1 == IF sessionId # "" /\ actualModelName # << >> /\ safeName # originalName
                  THEN setToolNameMappingIn(tnm, now, sessionId, actualModelName,
                                            safeName, originalName)
                  ELSE tnm
        got == getSignatureIn(tsc, now, sessionId, actualModelName)
        cachedToolSig == got[2]
        sig == IF ~enableThinking THEN ""
               ELSE firstTruthy(toolCall.thoughtSignature, cachedToolSig,
                                TOOL_THOUGHT_SIGNATURE)
        part == Part("functionCall", << >>, FALSE, sig, toolCall.id, safeName,
                     toolCall.arguments, mi, ci)
    IN  antigravityTools(calls, ci + 1, Append(acc, part), tnm1,
                         IF enableThinking THEN got[1] ELSE tsc,
                         enableThinking, actualModelName, sessionId, mi)

handleAssistantMessage(message, st, enableThinking, actualModelName, sessionId, mi) ==
  LET contents == st.contents
      hasToolCalls == Len(message.tool_calls) > 0
      hasContent == message.content # << >> /\ trim(message.content) # << >>
      tools == antigravityTools(message.tool_calls, 1, << >>, st.toolNameMap,
                                st.toolSignatureCache, enableThinking,
                                actualModelName, sessionId, mi)
      st1 == [st EXCEPT !.toolNameMap = tools[2], !.toolSignatureCache = tools[3]]
  IN
  IF Len(contents) > 0 /\ contents[Len(contents)].role = "model"
       /\ hasToolCalls /\ ~hasContent
    THEN [st1 EXCEPT !.contents[Len(contents)].parts = @ \o tools[1]]
    ELSE
      LET got == getSignatureIn(st.reasoningSignatureCache, now, sessionId, actualModelName)
          cachedSig == got[2]
          thoughtSignature ==
            firstTruthy(message.thoughtSignature, cachedSig,
                        getThoughtSignatureForModel(actualModelName))
          reasoningText == reasoningTextOf(message)
          thinkingParts ==
            IF enableThinking
              THEN <<Part("text", reasoningText, TRUE, "", "", << >>, "", mi, 0),
                     Part("text", <<" ">>, FALSE, thoughtSignature, "", << >>, "", mi, 0)>>
              ELSE << >>
          contentParts ==
            IF hasContent
              THEN <<Part("text", trimEnd(message.content), FALSE, "", "", << >>, "", mi, 0)>>
              ELSE << >>
      IN  [st1 EXCEPT
             !.contents = Append(contents,
                                 [role |-> "model",
                                  parts |-> thinkingParts \o contentParts \o tools[1]]),
             !.reasoningSignatureCache = IF enableThinking THEN got[1] ELSE @]

\* the name of the first functionCall part with this id, '' when there is none
NameInParts(parts, id) ==
  IF \E i \in 1..Len(parts) : parts[i].kind = "functionCall" /\ parts[i].id = id
    THEN parts[CHOOSE i \in 1..Len(parts) :
                 /\ parts[i].kind = "functionCall" /\ parts[i].id = id
                 /\ \A j \in 1..(i - 1) :
                      ~(parts[j].kind = "functionCall" /\ parts[j].id = id)].name
    ELSE << >>

\* a scan that takes the oldest model turn holding the id
FindFunctionNameOldestFirst(contents, i, id) ==
  LET holding == {t \in 1..i : contents[t].role = "model"
                                 /\ NameInParts(contents[t].parts, id) # << >>}
  IN  IF holding = {} THEN << >>
      ELSE NameInParts(contents[CHOOSE t \in holding : \A u \in holding : t <= u].parts, id)

\* the backward scan of handleToolCall, from turn i down
RECURSIVE FindFunctionName(_, _, _)
FindFunctionName(contents, i, id) ==
  IF i = 0 THEN << >>
  ELSE IF contents[i].role = "model" /\ NameInParts(contents[i].parts, id) # << >>
    THEN NameInParts(contents[i].parts, id)
  ELSE FindFunctionName(contents, i - 1, id)

\* a handleToolCall that opens a user turn for every tool result
handleToolCallNoMerge(message, contents, mi) ==
  Append(contents,
         [role |-> "user",
          parts |-> <<Part("functionResponse", << >>, FALSE, "", message.tool_call_id,
                           FindFunctionName(contents, Len(contents), message.tool_call_id),
                           message.content, mi, 0)>>])

handleToolCall(message, contents, mi) ==
  LET functionName == FindFunctionName(contents, Len(contents), message.tool_call_id)
      functionResponse ==
        Part("functionResponse", << >>, FALSE, "", message.tool_call_id, functionName,
             message.content, mi, 0)
  IN
  IF /\ Len(contents) > 0
     /\ contents[Len(contents)].role = "user"
     /\ \E i \in 1..Len(contents[Len(contents)].parts) :
          contents[Len(contents)].parts[i].kind = "functionResponse"
    THEN [contents EXCEPT ![Len(contents)].parts = Append(@, functionResponse)]
    ELSE Append(contents, [role |-> "user", parts |-> <<functionResponse>>])

\* openaiMessageToAntigravity, from message mi on; the messages keep their index
\* in the request
RECURSIVE openaiMessageToAntigravity(_, _, _, _, _, _)
openaiMessageToAntigravity(openaiMessages, mi, st, enableThinking, actualModelName, sessionId) ==
  IF mi > Len(openaiMessages) THEN st
  ELSE
    LET message == openaiMessages[mi]
        st1 ==
          CASE message.role \in {"user", "system"} ->
                 [st EXCEPT !.contents = handleUserMessage(message, st.contents, mi)]
            [] message.role = "assistant" ->
                 handleAssistantMessage(message, st, enableThinking, actualModelName,
                                        sessionId, mi)
            [] message.role = "tool" ->
                 [st EXCEPT !.contents = handleToolCall(message, st.contents, mi)]
            [] OTHER -> st
    IN  openaiMessageToAntigravity(openaiMessages, mi + 1, st1, enableThinking,
                                   actualModelName, sessionId)

\* convertOpenAIToolsToAntigravity: <<declared names, toolNameMap>> after the
\* tools from index i on (the parameter schemas are not modelled)
RECURSIVE convertOpenAIToolsToAntigravity(_, _, _, _, _, _)
convertOpenAIToolsToAntigravity(openaiTools, i, acc, tnm, sessionId, actualModelName) ==
  IF i > Len(openaiTools) THEN <<acc, tnm>>
  ELSE
    LET originalName == openaiTools[i]
        safeName == sanitizeToolName(Str(originalName))
        tnm1 == IF sessionId # "" /\ actualModelName # << >> /\ safeName # originalName
                  THEN setToolNameMappingIn(tnm, now, sessionId, actualModelName,
                                            safeName, originalName)
                  ELSE tnm
    IN  convertOpenAIToolsToAntigravity(openaiTools, i + 1, Append(acc, safeName), tnm1,
                                        sessionId, actualModelName)

\* the number of leading system messages
RECURSIVE LeadingSystem(_, _)
LeadingSystem(openaiMessages, i) ==
  IF i <= Len(openaiMessages) /\ openaiMessages[i].role = "system"
    THEN LeadingSystem(openaiMessages, i + 1)
    ELSE i - 1

\* join(sep) of an array of strings
RECURSIVE join(_, _)
join(texts, sep) ==
  IF texts = << >> THEN << >>
  ELSE IF Len(texts) = 1 THEN texts[1]
  ELSE texts[1] \o sep \o join(Tail(texts), sep)

ParagraphBreak == <<"\n", "\n">>

\* the trimmed non-empty contents of the system messages from index i up to
\* the first message that is not a system message
RECURSIVE systemTexts(_, _)
systemTexts(openaiMessages, i) ==
  IF i > Len(openaiMessages) \/ openaiMessages[i].role # "system" THEN << >>
  ELSE (IF trim(openaiMessages[i].content) # << >>
          THEN <<trim(openaiMessages[i].content)>> ELSE << >>)
       \o systemTexts(openaiMessages, i + 1)

\* an extraction that collects the system messages wherever they stand
RECURSIVE allSystemTexts(_, _)
allSystemTexts(openaiMessages, i) ==
  IF i > Len(openaiMessages) THEN << >>
  ELSE (IF openaiMessages[i].role = "system" /\ trim(openaiMessages[i].content) # << >>
          THEN <<trim(openaiMessages[i].content)>> ELSE << >>)
       \o allSystemTexts(openaiMessages, i + 1)

extractSystemInstructionAnywhere(openaiMessages, baseSystem) ==
  join((IF trim(baseSystem) # << >> THEN <<trim(baseSystem)>> ELSE << >>)
       \o (IF allSystemTexts(openaiMessages, 1) # << >>
             THEN <<join(allSystemTexts(openaiMessages, 1), ParagraphBreak)>> ELSE << >>),
       ParagraphBreak)

\* extractSystemInstruction(openaiMessages), baseSystem being
\* config.systemInstruction || ''
extractSystemInstruction(openaiMessages, baseSystem) ==
  join((IF trim(baseSystem) # << >> THEN <<trim(baseSystem)>> ELSE << >>)
       \o (IF systemTexts(openaiMessages, 1) # << >>
             THEN <<join(systemTexts(openaiMessages, 1), ParagraphBreak)>> ELSE << >>),
       ParagraphBreak)

\* config.defaults.thinking_budget ?? 1024
defaultThinkingBudget == 1024

\* names every object literal answers to without having them as own keys:
\* the members it inherits from Object.prototype
ObjectPrototypeNames == {"constructor", "toString", "valueOf", "hasOwnProperty"}

\* stands for such a member, a function: a value that is neither null nor
\* undefined, and not a number
ObjectPrototypeMember == -2

\* REASONING_EFFORT_MAP[effort] ?? defaultThinkingBudget: the property
\* lookup on the object literal goes on to its prototype, and ?? replaces
\* only null and undefined
REASONING_EFFORT_MAP(effort) ==
  CASE effort = "low" -> 1024
    [] effort = "medium" -> 16000
    [] effort = "high" -> 32000
    [] effort \in ObjectPrototypeNames -> ObjectPrototypeMember
    [] OTHER -> defaultThinkingBudget

\* a generation config that decides on the resolved model
generateGenerationConfigOfResolved(parameters, enableThinking, actualModelName) ==
  [thinkingConfig |->
     [includeThoughts |-> isEnableThinking(actualModelName),
      thinkingBudget |->
        IF ~isEnableThinking(actualModelName) THEN 0
        ELSE IF parameters.thinking_budget.defined THEN parameters.thinking_budget.value
        ELSE IF parameters.reasoning_effort # ""
          THEN REASONING_EFFORT_MAP(parameters.reasoning_effort)
        ELSE defaultThinkingBudget],
   topP |-> ~(isEnableThinking(actualModelName) /\ Contains(actualModelName, "claude"))]

\* generateGenerationConfig: the thinking config, and whether topP is kept
\* (the sampling parameters are not modelled)
generateGenerationConfig(parameters, enableThinking, actualModelName) ==
  [thinkingConfig |->
     [includeThoughts |-> enableThinking,
      thinkingBudget |->
        IF ~enableThinking THEN 0
        ELSE IF parameters.thinking_budget.defined THEN parameters.thinking_budget.value
        ELSE IF parameters.reasoning_effort # ""
          THEN REASONING_EFFORT_MAP(parameters.reasoning_effort)
        ELSE defaultThinkingBudget],
   topP |-> ~(enableThinking /\ Contains(actualModelName, "claude"))]

\* parameters without thinking_budget and reasoning_effort
NoParameters == [thinking_budget |-> [defined |-> FALSE, value |-> 0], reasoning_effort |-> ""]

\* a configuration with an empty systemInstruction
NoConfig == [systemInstruction |-> << >>]

NoInstruction == [present |-> FALSE, text |-> << >>]

NoBody == [contents |-> << >>, tools |-> << >>, model |-> << >>, sessionId |-> "",
           enableThinking |-> FALSE, systemInstruction |-> NoInstruction,
           generationConfig |-> generateGenerationConfig(NoParameters, FALSE, << >>)]

NoRequest == [messages |-> << >>, model |-> << >>, tools |-> << >>, sessionId |-> "",
     parameters |-> NoParameters, config |-> NoConfig]

NoUsage == [present |-> FALSE, promptTokenCount |-> 0, candidatesTokenCount |-> 0,
            totalTokenCount |-> 0]

NoData == [parts |-> << >>, usageMetadata |-> NoUsage]

NoResponse == [content |-> << >>, reasoningContent |-> Null, reasoningSignature |-> "",
               toolCalls |-> << >>, usage |-> NoUsage]

(***************************************************************************)
(* generateRequestBody(messages, model, params, tools, token): the         *)
(* contents, the declared tools, the resolved model and the session id of  *)
(* the body, its systemInstruction and the thinking part of its            *)
(* generationConfig.                                                       *)
(* enableThinking is what isEnableThinking answered for the request.       *)
(***************************************************************************)
generateRequestBodyOf(rq, tnm, rsc, tsc) ==
  LET enableThinking == isEnableThinking(rq.model)
      actualModelName == modelMapping(rq.model)
      mergedSystemInstruction ==
        extractSystemInstruction(rq.messages, rq.config.systemInstruction)
      startIndex == LeadingSystem(rq.messages, 1)
      st0 == [contents |-> << >>, toolNameMap |-> tnm,
              reasoningSignatureCache |-> rsc, toolSignatureCache |-> tsc]
      st == openaiMessageToAntigravity(rq.messages, startIndex + 1, st0,
                                       enableThinking, actualModelName, rq.sessionId)
      tools == convertOpenAIToolsToAntigravity(rq.tools, 1, << >>, st.toolNameMap,
                                               rq.sessionId, actualModelName)
  IN  [body |-> [contents |-> st.contents, tools |-> tools[1],
                 model |-> actualModelName, sessionId |-> rq.sessionId,
                 enableThinking |-> enableThinking,
                 systemInstruction |->
                   [present |-> mergedSystemInstruction # << >>,
                    text |-> mergedSystemInstruction],
                 generationConfig |->
                   generateGenerationConfig(rq.parameters, enableThinking,
                                            actualModelName)],
       toolNameMap |-> tools[2],
       reasoningSignatureCache |-> st.reasoningSignatureCache,
       toolSignatureCache |-> st.toolSignatureCache]

\* the body is returned; the stores are as the translation left them
returnRequestBody(r) ==
  /\ requestBody' = r.body
  /\ toolNameMap' = r.toolNameMap
  /\ reasoningSignatureCache' = r.reasoningSignatureCache
  /\ toolSignatureCache' = r.toolSignatureCache

generateRequestBody(rq) ==
  /\ trPc = "idle"
  /\ returnRequestBody(generateRequestBodyOf(rq, toolNameMap, reasoningSignatureCache,
                                             toolSignatureCache))
  /\ reqIn' = rq
  /\ trPc' = "translated"
  /\ UNCHANGED <<now, returned, data, response>>

(***************************************************************************)
(* Response side (client.js).  An upstream part is [kind, text,            *)
(* thoughtSignature, id, name, args], kind naming the branch the code      *)
(* takes for it: "thought" (part.thought === true), "text" (part.text      *)
(* defined), "functionCall", "inlineData" (text holding the image data).   *)
(***************************************************************************)
UPart(kind, text, sig, id, nm) ==
  [kind |-> kind, text |-> text, thoughtSignature |-> sig, id |-> id, name |-> nm,
   args |-> "{}"]

GeneratedToolCallId == "call_generated"

\* convertToToolCall: <<tool call, toolNameMap after the lookup>>
convertToToolCall(functionCall, sessionId, model, tnm) ==
  LET got == IF sessionId # "" /\ model # << >>
               THEN getOriginalToolNameIn(tnm, now, sessionId, model, functionCall.name)
               ELSE <<tnm, Null>>
      original == got[2]
  IN  <<[id |-> IF functionCall.id # "" THEN functionCall.id ELSE GeneratedToolCallId,
         name |-> IF original.type = "string" /\ original.s # << >> THEN original.s
                  ELSE functionCall.name,
         arguments |-> functionCall.args,
         thoughtSignature |-> ""],
        got[1]>>

\* saveBase64Image: the URL the image store answers for the data
saveBase64Image(imageData) == <<"u", "r", "l", ":">> \o imageData

\* a loop that takes a thought part for text
RECURSIVE aggregatePartsThoughtAsText(_, _, _, _, _)
aggregatePartsThoughtAsText(parts, i, acc, sessionId, model) ==
  IF i > Len(parts) THEN acc
  ELSE
    LET part == parts[i]
        acc1 ==
          CASE part.kind \in {"thought", "text"} -> [acc EXCEPT !.content = @ \o part.text]
            [] part.kind = "functionCall" ->
                 LET conv == convertToToolCall(part, sessionId, model, acc.toolNameMap)
                 IN  [acc EXCEPT
                        !.toolCalls = Append(@, [conv[1] EXCEPT
                                                   !.thoughtSignature = part.thoughtSignature]),
                        !.toolNameMap = conv[2]]
            [] part.kind = "inlineData" ->
                 [acc EXCEPT !.imageUrls = Append(@, saveBase64Image(part.text))]
            [] OTHER -> acc
    IN  aggregatePartsThoughtAsText(parts, i + 1, acc1, sessionId, model)

\* the loop over the parts of generateAssistantResponseNoStream, from part i on
RECURSIVE aggregateParts(_, _, _, _, _)
aggregateParts(parts, i, acc, sessionId, model) ==
  IF i > Len(parts) THEN acc
  ELSE
    LET part == parts[i]
        acc1 ==
          CASE part.kind = "thought" ->
                 [acc EXCEPT !.reasoningContent = @ \o part.text,
                             !.reasoningSignature =
                               IF part.thoughtSignature # "" /\ @ = ""
                                 THEN part.thoughtSignature ELSE @]
            [] part.kind = "text" -> [acc EXCEPT !.content = @ \o part.text]
            [] part.kind = "functionCall" ->
                 LET conv == convertToToolCall(part, sessionId, model, acc.toolNameMap)
                 IN  [acc EXCEPT
                        !.toolCalls = Append(@, [conv[1] EXCEPT
                                                   !.thoughtSignature = part.thoughtSignature]),
                        !.toolNameMap = conv[2]]
            [] part.kind = "inlineData" ->
                 [acc EXCEPT !.imageUrls = Append(@, saveBase64Image(part.text))]
            [] OTHER -> acc
    IN  aggregateParts(parts, i + 1, acc1, sessionId, model)

\* imageUrls.map(url => `![image](${url})`).join('\n\n')
RECURSIVE imageMarkdown(_, _)
imageMarkdown(imageUrls, i) ==
  IF i > Len(imageUrls) THEN << >>
  ELSE (IF i > 1 THEN <<"\n", "\n">> ELSE << >>)
       \o <<"!", "[", "]", "(">> \o imageUrls[i] \o <<")">>
       \o imageMarkdown(imageUrls, i + 1)

\* the thoughtSignature of the first tool call that carries one, "" when none
FirstToolSignature(toolCalls) ==
  IF \E i \in 1..Len(toolCalls) : toolCalls[i].thoughtSignature # ""
    THEN toolCalls[CHOOSE i \in 1..Len(toolCalls) :
                     /\ toolCalls[i].thoughtSignature # ""
                     /\ \A j \in 1..(i - 1) : toolCalls[j].thoughtSignature = ""
                  ].thoughtSignature
    ELSE ""

\* generateAssistantResponseNoStream, once the upstream answered 200 with body d
generateAssistantResponseNoStream(d) ==
  /\ trPc = "translated"
  /\ LET sessionId == requestBody.sessionId
         model == requestBody.model
         acc == aggregateParts(d.parts, 1,
                               [content |-> << >>, reasoningContent |-> << >>,
                                reasoningSignature |-> "", toolCalls |-> << >>,
                                imageUrls |-> << >>, toolNameMap |-> toolNameMap],
                               sessionId, model)
         known == sessionId # "" /\ model # << >>
         toolSig == FirstToolSignature(acc.toolCalls)
         content ==
           IF Len(acc.imageUrls) > 0
             THEN (IF acc.content # << >> THEN acc.content \o <<"\n", "\n">> ELSE << >>)
                  \o imageMarkdown(acc.imageUrls, 1)
             ELSE acc.content
     IN  /\ response' = [content |-> content,
                         reasoningContent |->
                           IF acc.reasoningContent = << >> THEN Null
                           ELSE Str(acc.reasoningContent),
                         reasoningSignature |-> acc.reasoningSignature,
                         toolCalls |-> acc.toolCalls,
                         usage |-> d.usageMetadata]
         /\ toolNameMap' = acc.toolNameMap
         /\ reasoningSignatureCache' =
              IF known
                THEN setSignatureIn(reasoningSignatureCache, MAX_REASONING_ENTRIES, now,
                                    sessionId, model, acc.reasoningSignature)
                ELSE reasoningSignatureCache
         /\ toolSignatureCache' =
              IF known
                THEN setSignatureIn(toolSignatureCache, MAX_TOOL_ENTRIES, now,
                                    sessionId, model, toolSig)
                ELSE toolSignatureCache
  /\ data' = d
  /\ trPc' = "responded"
  /\ UNCHANGED <<now, returned, reqIn, requestBody>>

TranslateIdle ==
  /\ trPc = "off"
  /\ reqIn = NoRequest
  /\ requestBody = NoBody
  /\ data = NoData
  /\ response = NoResponse

retryVars == <<maxRetries, attempt, rtPc, fnCalls, settled>>

(***************************************************************************)
(* with429Retry (server.js).  A JavaScript value is [kind, num, den, s]:   *)
(* a finite number is the fraction num/den, a string carries its           *)
(* characters in s.                                                        *)
(***************************************************************************)
JNum(num, den) == [kind |-> "number", num |-> num, den |-> den, s |-> << >>]

NaN == [kind |-> "NaN", num |-> 0, den |-> 1, s |-> << >>]

PosInfinity == [kind |-> "Infinity", num |-> 0, den |-> 1, s |-> << >>]

NegInfinity == [kind |-> "-Infinity", num |-> 0, den |-> 1, s |-> << >>]

JStr(s) == [kind |-> "string", num |-> 0, den |-> 1, s |-> s]

JUndefined == [kind |-> "undefined", num |-> 0, den |-> 1, s |-> << >>]

DigitValue(c) ==
  CASE c = "0" -> 0 [] c = "1" -> 1 [] c = "2" -> 2 [] c = "3" -> 3 [] c = "4" -> 4
    [] c = "5" -> 5 [] c = "6" -> 6 [] c = "7" -> 7 [] c = "8" -> 8 [] c = "9" -> 9

\* the number a string of decimal digits denotes
RECURSIVE ParseDigits(_, _)
ParseDigits(s, acc) ==
  IF s = << >> THEN acc ELSE ParseDigits(Tail(s), 10 * acc + DigitValue(Head(s)))

\* Number(x)
ToNumber(x) ==
  CASE x.kind \in {"number", "NaN", "Infinity", "-Infinity"} -> x
    [] x.kind = "string" ->
         IF x.s = << >> THEN JNum(0, 1)
         ELSE IF \A i \in 1..Len(x.s) : x.s[i] \in Digits
           THEN JNum(ParseDigits(x.s, 0), 1)
           ELSE NaN
    [] OTHER -> NaN

\* the truthiness of x
Truthy(x) ==
  CASE x.kind = "number" -> x.num # 0
    [] x.kind \in {"Infinity", "-Infinity"} -> TRUE
    [] x.kind = "string" -> x.s # << >>
    [] OTHER -> FALSE

\* Number.isFinite(maxRetries) && maxRetries > 0 ? Math.floor(maxRetries) : 0
Retries(budget) ==
  IF budget.kind = "number" /\ budget.num > 0 THEN budget.num \div budget.den ELSE 0

\* Number(error.status || error.response?.status)
ErrorStatus(error) ==
  ToNumber(IF Truthy(error.status) THEN error.status ELSE error.responseStatus)

shouldRetryOnceMore(status, n, retries) ==
  status.kind = "number" /\ status.num = 429 * status.den /\ n <= retries

\* a retry test that does not look at the status
shouldRetryAnyStatus(status, n, retries) == n < retries

\* status === 429 && attempt < retries
shouldRetry(status, n, retries) ==
  status.kind = "number" /\ status.num = 429 * status.den /\ n < retries

NoOutcome == [ok |-> FALSE, n |-> 0, status |-> JUndefined, responseStatus |-> JUndefined]

\* with429Retry(fn, budget): the first call of fn is under way
with429Retry(budget) ==
  /\ rtPc = "idle"
  /\ maxRetries' = budget
  /\ attempt' = 0
  /\ fnCalls' = << >>
  /\ rtPc' = "calling"
  /\ UNCHANGED settled

\* fn(attempt) resolves: with429Retry returns its value
fnResolves ==
  /\ rtPc = "calling"
  /\ LET value == [NoOutcome EXCEPT !.ok = TRUE, !.n = Len(fnCalls) + 1] IN
     /\ fnCalls' = Append(fnCalls, value)
     /\ settled' = value
  /\ rtPc' = "returned"
  /\ UNCHANGED <<maxRetries, attempt>>

\* fn(attempt) rejects with an error: the catch block retries or rethrows
fnRejects(status, responseStatus) ==
  /\ rtPc = "calling"
  /\ LET error == [ok |-> FALSE, n |-> Len(fnCalls) + 1, status |-> status,
                   responseStatus |-> responseStatus]
     IN  /\ fnCalls' = Append(fnCalls, error)
         /\ IF shouldRetry(ErrorStatus(error), attempt, Retries(maxRetries))
              THEN /\ attempt' = attempt + 1
                   /\ UNCHANGED <<rtPc, settled>>
              ELSE /\ rtPc' = "thrown"
                   /\ settled' = error
                   /\ UNCHANGED attempt
  /\ UNCHANGED maxRetries

RetryIdle ==
  /\ maxRetries = JUndefined
  /\ attempt = 0
  /\ rtPc = "off"
  /\ fnCalls = << >>
  /\ settled = NoOutcome

streamVars == <<useAxios, lineBufferPool, lineBuffers, req>>

(***************************************************************************)
(* Streaming client (client.js).  The upstream sends bytes: an ASCII byte  *)
(* is the character it encodes, "C3" and "A9" are the two bytes of the     *)
(* character U+00E9.  Text is a sequence of UTF-16 code units.             *)
(*                                                                         *)
(* A LineBuffer instance is [buffer, appended, emitted]: its buffer field, *)
(* and, since its last clear(), the chunks appended to it, concatenated,   *)
(* and the lines append() returned.                                        *)
(*                                                                         *)
(* The JSON text of an event is abstracted to '{' items '}' with items     *)
(*   t<chars>;  a part {text}            h<chars>;  a part {thought, text} *)
(*   H<chars>;  a thought part with a thoughtSignature                     *)
(*   f          a part {functionCall}    F  finishReason   u  usageMetadata *)
(* in this order; any other text is a syntax error.                        *)
(***************************************************************************)
DATA_PREFIX == <<"d", "a", "t", "a", ":", " ">>

DATA_PREFIX_LEN == Len(DATA_PREFIX)

\* chunk.toString('utf8')
RECURSIVE toString(_)
toString(bytes) ==
  IF bytes = << >> THEN << >>
  ELSE IF bytes[1] = "C3"
    THEN IF Len(bytes) >= 2 /\ bytes[2] = "A9"
           THEN <<"U+00E9">> \o toString(SubSeq(bytes, 3, Len(bytes)))
           ELSE <<"U+FFFD">> \o toString(Tail(bytes))
  ELSE IF bytes[1] = "A9" THEN <<"U+FFFD">> \o toString(Tail(bytes))
  ELSE <<bytes[1]>> \o toString(Tail(bytes))

\* str.indexOf(c, start), positions counted from 1; 0 when there is none
indexOf(str, c, start) ==
  IF \E i \in start..Len(str) : str[i] = c
    THEN CHOOSE i \in start..Len(str) : str[i] = c /\ \A j \in start..(i - 1) : str[j] # c
    ELSE 0

NewLineBuffer == [buffer |-> << >>, appended |-> << >>, emitted |-> << >>]

\* the while loop of append: the lines of buffer from start on and what is left
RECURSIVE splitLines(_, _, _)
splitLines(buffer, start, lines) ==
  LET end == indexOf(buffer, "\n", start) IN
  IF end # 0
    THEN splitLines(buffer, end + 1, Append(lines, SubSeq(buffer, start, end - 1)))
    ELSE [lines |-> lines,
          buffer |-> IF start <= Len(buffer) THEN SubSeq(buffer, start, Len(buffer))
                     ELSE << >>]

\* an append that hands out what follows the last newline as a line
appendEmitsPartial(lb, chunk) ==
  LET r == splitLines(lb.buffer \o chunk, 1, << >>)
      lines == IF r.buffer = << >> THEN r.lines ELSE Append(r.lines, r.buffer)
  IN  [lines |-> lines,
       lb |-> [buffer |-> << >>, appended |-> lb.appended \o chunk,
               emitted |-> lb.emitted \o lines]]

appendDropsPartial(lb, chunk) ==
  LET r == splitLines(lb.buffer \o chunk, 1, << >>) IN
  [lines |-> r.lines,
   lb |-> [buffer |-> << >>, appended |-> lb.appended \o chunk,
           emitted |-> lb.emitted \o r.lines]]

\* LineBuffer.append(chunk): [lines returned, the instance after]
append(lb, chunk) ==
  LET r == splitLines(lb.buffer \o chunk, 1, << >>) IN
  [lines |-> r.lines,
   lb |-> [buffer |-> r.buffer, appended |-> lb.appended \o chunk,
           emitted |-> lb.emitted \o r.lines]]

\* LineBuffer.clear()
clear(lb) == NewLineBuffer

LineBufferPoolMax == 2

\* getLineBuffer: [the instance handed out, the pool after, the instances after]
getLineBuffer(pool, instances) ==
  IF pool # << >>
    THEN [buffer |-> pool[Len(pool)], pool |-> SubSeq(pool, 1, Len(pool) - 1),
          instances |-> [instances EXCEPT ![pool[Len(pool)]] = clear(@)]]
    ELSE [buffer |-> Len(instances) + 1, pool |-> pool,
          instances |-> Append(instances, NewLineBuffer)]

\* releaseLineBuffer(buffer): [the pool after, the instances after]
releaseLineBuffer(pool, instances, buffer) ==
  IF Len(pool) < LineBufferPoolMax
    THEN [pool |-> Append(pool, buffer),
          instances |-> [instances EXCEPT ![buffer] = clear(@)]]
    ELSE [pool |-> pool, instances |-> instances]

NoParse == [ok |-> FALSE, parts |-> << >>, finishReason |-> FALSE, usage |-> FALSE]

RECURSIVE parseItems(_, _, _)
parseItems(text, i, acc) ==
  IF i > Len(text) THEN NoParse
  ELSE IF text[i] = "}" THEN IF i = Len(text) THEN acc ELSE NoParse
  ELSE IF acc.usage THEN NoParse
  ELSE IF text[i] = "u" THEN parseItems(text, i + 1, [acc EXCEPT !.usage = TRUE])
  ELSE IF acc.finishReason THEN NoParse
  ELSE IF text[i] = "F" THEN parseItems(text, i + 1, [acc EXCEPT !.finishReason = TRUE])
  ELSE IF text[i] = "f"
    THEN parseItems(text, i + 1,
                    [acc EXCEPT !.parts =
                       Append(@, UPart("functionCall", << >>, "", "c9", <<"a", "_", "a">>))])
  ELSE IF text[i] = "g"
    THEN parseItems(text, i + 1,
                    [acc EXCEPT !.parts =
                       Append(@, UPart("functionCall", << >>, "sigT", "c8", <<"b">>))])
  ELSE IF text[i] \in {"t", "h", "H", "G"}
    THEN LET end == indexOf(text, ";", i + 1)
             str == SubSeq(text, i + 1, end - 1)
             part == CASE text[i] = "t" -> UPart("text", str, "", "", << >>)
                       [] text[i] = "h" -> UPart("thought", str, "", "", << >>)
                       [] text[i] = "G" -> UPart("thought", str, "sigB", "", << >>)
                       [] OTHER -> UPart("thought", str, "sigS", "", << >>)
         IN  IF end = 0 THEN NoParse
             ELSE parseItems(text, end + 1, [acc EXCEPT !.parts = Append(@, part)])
  ELSE NoParse

\* JSON.parse(text): ok is FALSE when it throws a SyntaxError
JSONparse(text) ==
  IF text # << >> /\ text[1] = "{"
    THEN parseItems(text, 2, [NoParse EXCEPT !.ok = TRUE])
    ELSE NoParse

startsWith(str, prefix) ==
  Len(str) >= Len(prefix) /\ SubSeq(str, 1, Len(prefix)) = prefix

Event(type, content, sig, toolCalls) ==
  [type |-> type, content |-> content, thoughtSignature |-> sig, tool_calls |-> toolCalls]

\* a loop whose reasoning events carry the signature of their own part only
RECURSIVE emitPartsOwnSignatureOnly(_, _, _, _, _)
emitPartsOwnSignatureOnly(parts, i, ps, sessionId, model) ==
  IF i > Len(parts) THEN ps
  ELSE
    LET part == parts[i]
        known == sessionId # "" /\ model # << >>
        ps1 ==
          CASE part.kind = "thought" ->
                 [ps EXCEPT
                    !.state.reasoningSignature =
                      IF part.thoughtSignature # "" THEN part.thoughtSignature ELSE @,
                    !.reasoningSignatureCache =
                      IF part.thoughtSignature # "" /\ known
                        THEN setSignatureIn(@, MAX_REASONING_ENTRIES, now, sessionId,
                                            model, part.thoughtSignature)
                        ELSE @,
                    !.events = Append(@, Event("reasoning", part.text,
                                               part.thoughtSignature, << >>))]
            [] part.kind = "text" ->
                 [ps EXCEPT !.events = Append(@, Event("text", part.text, "", << >>))]
            [] part.kind = "functionCall" ->
                 LET conv == convertToToolCall(part, sessionId, model, ps.toolNameMap) IN
                 [ps EXCEPT
                    !.toolNameMap = conv[2],
                    !.toolSignatureCache =
                      IF part.thoughtSignature # "" /\ known
                        THEN setSignatureIn(@, MAX_TOOL_ENTRIES, now, sessionId, model,
                                            part.thoughtSignature)
                        ELSE @,
                    !.state.toolCalls =
                      Append(@, [conv[1] EXCEPT !.thoughtSignature = part.thoughtSignature])]
            [] OTHER -> ps
    IN  emitPartsOwnSignatureOnly(parts, i + 1, ps1, sessionId, model)

\* the loop over the parts of one event; ps is [state, events, toolNameMap,
\* reasoningSignatureCache, toolSignatureCache]
RECURSIVE emitParts(_, _, _, _, _)
emitParts(parts, i, ps, sessionId, model) ==
  IF i > Len(parts) THEN ps
  ELSE
    LET part == parts[i]
        known == sessionId # "" /\ model # << >>
        ps1 ==
          CASE part.kind = "thought" ->
                 LET sig == IF part.thoughtSignature # "" THEN part.thoughtSignature
                            ELSE ps.state.reasoningSignature
                 IN  [ps EXCEPT
                        !.state.reasoningSignature = sig,
                        !.reasoningSignatureCache =
                          IF part.thoughtSignature # "" /\ known
                            THEN setSignatureIn(@, MAX_REASONING_ENTRIES, now, sessionId,
                                                model, part.thoughtSignature)
                            ELSE @,
                        !.events = Append(@, Event("reasoning", part.text, sig, << >>))]
            [] part.kind = "text" ->
                 [ps EXCEPT !.events = Append(@, Event("text", part.text, "", << >>))]
            [] part.kind = "functionCall" ->
                 LET conv == convertToToolCall(part, sessionId, model, ps.toolNameMap) IN
                 [ps EXCEPT
                    !.toolNameMap = conv[2],
                    !.toolSignatureCache =
                      IF part.thoughtSignature # "" /\ known
                        THEN setSignatureIn(@, MAX_TOOL_ENTRIES, now, sessionId, model,
                                            part.thoughtSignature)
                        ELSE @,
                    !.state.toolCalls =
                      Append(@, [conv[1] EXCEPT !.thoughtSignature = part.thoughtSignature])]
            [] OTHER -> ps
    IN  emitParts(parts, i + 1, ps1, sessionId, model)

\* a parser that leaves the accumulated tool calls in place after emitting them
parseAndEmitStreamChunkKeepsToolCalls(line, ps, sessionId, model) ==
  IF ~startsWith(line, DATA_PREFIX) THEN ps
  ELSE
    LET parsed == JSONparse(SubSeq(line, DATA_PREFIX_LEN + 1, Len(line)))
        ps1 == emitParts(parsed.parts, 1, ps, sessionId, model)
        ps2 == IF parsed.finishReason /\ Len(ps1.state.toolCalls) > 0
                 THEN [ps1 EXCEPT
                         !.events = Append(@, Event("tool_calls", << >>, "",
                                                    ps1.state.toolCalls))]
                 ELSE ps1
        ps3 == IF parsed.finishReason /\ parsed.usage
                 THEN [ps2 EXCEPT !.events = Append(@, Event("usage", << >>, "", << >>))]
                 ELSE ps2
    IN  IF parsed.ok THEN ps3 ELSE ps

parseAndEmitStreamChunk(line, ps, sessionId, model) ==
  IF ~startsWith(line, DATA_PREFIX) THEN ps
  ELSE
    LET parsed == JSONparse(SubSeq(line, DATA_PREFIX_LEN + 1, Len(line)))
        ps1 == emitParts(parsed.parts, 1, ps, sessionId, model)
        ps2 == IF parsed.finishReason /\ Len(ps1.state.toolCalls) > 0
                 THEN [ps1 EXCEPT
                         !.events = Append(@, Event("tool_calls", << >>, "",
                                                    ps1.state.toolCalls)),
                         !.state.toolCalls = << >>]
                 ELSE ps1
        ps3 == IF parsed.finishReason /\ parsed.usage
                 THEN [ps2 EXCEPT !.events = Append(@, Event("usage", << >>, "", << >>))]
                 ELSE ps2
    IN  IF parsed.ok THEN ps3 ELSE ps

\* a loop that gives up at the first line that is not a payload
RECURSIVE parseLinesStopsAtBadLine(_, _, _, _, _)
parseLinesStopsAtBadLine(lines, i, ps, sessionId, model) ==
  IF i > Len(lines) THEN ps
  ELSE IF ~startsWith(lines[i], DATA_PREFIX)
          \/ ~JSONparse(SubSeq(lines[i], DATA_PREFIX_LEN + 1, Len(lines[i]))).ok
    THEN ps
  ELSE parseLinesStopsAtBadLine(lines, i + 1,
                                parseAndEmitStreamChunk(lines[i], ps, sessionId, model),
                                sessionId, model)

\* the loop of processChunk over the lines append returned
RECURSIVE parseLines(_, _, _, _, _)
parseLines(lines, i, ps, sessionId, model) ==
  IF i > Len(lines) THEN ps
  ELSE parseLines(lines, i + 1,
                  parseAndEmitStreamChunk(lines[i], ps, sessionId, model),
                  sessionId, model)

NoState == [toolCalls |-> << >>, reasoningSignature |-> ""]

NoReq ==
  [pc |-> "idle", lineBuffer |-> 0, statusCode |-> 0, errorBody |-> << >>,
   attempt |-> 0, state |-> NoState, events |-> << >>, upstream |-> << >>,
   input |-> << >>, error |-> 0]

\* config.retryTimes
retryTimes == 1

\* server.js: maxRetries > 0 ? Math.floor(maxRetries) : 0
safeRetries == IF retryTimes > 0 THEN retryTimes ELSE 0

\* the first await of generateAssistantResponse: the state object is made
\* and a line buffer taken from the pool; the upstream will answer input
generateAssistantResponse(r) ==
  /\ req[r].pc = "idle"
  /\ LET got == getLineBuffer(lineBufferPool, lineBuffers) IN
     /\ lineBufferPool' = got.pool
     /\ lineBuffers' = got.instances
     /\ req' = [req EXCEPT ![r] = [@ EXCEPT !.pc = "awaiting", !.lineBuffer = got.buffer,
                                            !.state = NoState, !.statusCode = 0,
                                            !.errorBody = << >>, !.error = 0,
                                            !.upstream = req[r].input]]
  /\ UNCHANGED <<useAxios, cacheVars>>

\* processChunk(chunk) of call r, the upstream keeping rest to send
processChunk(r, chunk, rest) ==
  LET id == req[r].lineBuffer
      ap == append(lineBuffers[id], chunk)
      ps == parseLines(ap.lines, 1,
                       [state |-> req[r].state, events |-> req[r].events,
                        toolNameMap |-> toolNameMap,
                        reasoningSignatureCache |-> reasoningSignatureCache,
                        toolSignatureCache |-> toolSignatureCache],
                       requestBody.sessionId, requestBody.model)
  IN  /\ lineBuffers' = [lineBuffers EXCEPT ![id] = ap.lb]
      /\ req' = [req EXCEPT ![r] = [@ EXCEPT !.state = ps.state, !.events = ps.events,
                                             !.upstream = rest]]
      /\ toolNameMap' = ps.toolNameMap
      /\ reasoningSignatureCache' = ps.reasoningSignatureCache
      /\ toolSignatureCache' = ps.toolSignatureCache
      /\ UNCHANGED <<now, returned, useAxios, lineBufferPool>>

\* await axios(axiosConfig) resolves: the upstream answered 2xx
axiosResolves(r) ==
  /\ useAxios /\ req[r].pc = "awaiting"
  /\ req' = [req EXCEPT ![r].pc = "streaming"]
  /\ UNCHANGED <<useAxios, lineBufferPool, lineBuffers, cacheVars>>

\* await axios(axiosConfig) throws: another status, or no response (0)
axiosRejects(r, status) ==
  /\ useAxios /\ req[r].pc = "awaiting"
  /\ req' = [req EXCEPT ![r] = [@ EXCEPT !.pc = "rejected", !.error = status]]
  /\ UNCHANGED <<useAxios, lineBufferPool, lineBuffers, cacheVars>>

\* response.data.on('data'): the next k bytes arrive as one Buffer
axiosData(r, k) ==
  /\ useAxios /\ req[r].pc = "streaming"
  /\ k \in 1..Len(req[r].upstream)
  /\ processChunk(r, toString(SubSeq(req[r].upstream, 1, k)),
                  SubSeq(req[r].upstream, k + 1, Len(req[r].upstream)))

\* response.data.on('end')
axiosEnd(r) ==
  /\ useAxios /\ req[r].pc = "streaming" /\ req[r].upstream = << >>
  /\ LET rel == releaseLineBuffer(lineBufferPool, lineBuffers, req[r].lineBuffer) IN
     /\ lineBufferPool' = rel.pool
     /\ lineBuffers' = rel.instances
  /\ req' = [req EXCEPT ![r].pc = "returned"]
  /\ UNCHANGED <<useAxios, cacheVars>>

\* response.data.on('error', reject)
axiosError(r) ==
  /\ useAxios /\ req[r].pc = "streaming"
  /\ req' = [req EXCEPT ![r] = [@ EXCEPT !.pc = "rejected", !.error = 0]]
  /\ UNCHANGED <<useAxios, lineBufferPool, lineBuffers, cacheVars>>

\* streamResponse.onStart(({ status }) => ...)
onStart(r, status) ==
  /\ ~useAxios /\ req[r].pc = "awaiting"
  /\ req' = [req EXCEPT ![r] = [@ EXCEPT !.pc = "streaming", !.statusCode = status]]
  /\ UNCHANGED <<useAxios, lineBufferPool, lineBuffers, cacheVars>>

\* an onData that parses the body of an error answer like a stream
onDataIgnoresStatus(r, k) ==
  /\ ~useAxios /\ req[r].pc = "streaming"
  /\ k \in 1..Len(req[r].upstream)
  /\ processChunk(r, toString(SubSeq(req[r].upstream, 1, k)),
                  SubSeq(req[r].upstream, k + 1, Len(req[r].upstream)))

\* streamResponse.onData: the requester hands over the next k bytes as a
\* string, never cutting a character
onData(r, k) ==
  /\ ~useAxios /\ req[r].pc = "streaming"
  /\ k \in 1..Len(req[r].upstream)
  /\ ~(req[r].upstream[k] = "C3" /\ k < Len(req[r].upstream) /\ req[r].upstream[k + 1] = "A9")
  /\ LET chunk == toString(SubSeq(req[r].upstream, 1, k))
         rest == SubSeq(req[r].upstream, k + 1, Len(req[r].upstream))
     IN  IF req[r].statusCode # 200
           THEN /\ req' = [req EXCEPT ![r] = [@ EXCEPT !.errorBody = @ \o chunk,
                                                       !.upstream = rest]]
                /\ UNCHANGED <<useAxios, lineBufferPool, lineBuffers, cacheVars>>
           ELSE processChunk(r, chunk, rest)

\* streamResponse.onEnd
onEnd(r) ==
  /\ ~useAxios /\ req[r].pc = "streaming" /\ req[r].upstream = << >>
  /\ LET rel == releaseLineBuffer(lineBufferPool, lineBuffers, req[r].lineBuffer) IN
     /\ lineBufferPool' = rel.pool
     /\ lineBuffers' = rel.instances
  /\ req' = [req EXCEPT ![r] =
               IF @.statusCode # 200
                 THEN [@ EXCEPT !.pc = "rejected", !.error = req[r].statusCode]
                 ELSE [@ EXCEPT !.pc = "returned"]]
  /\ UNCHANGED <<useAxios, cacheVars>>

\* streamResponse.onError(reject)
onError(r) ==
  /\ ~useAxios /\ req[r].pc \in {"awaiting", "streaming"}
  /\ req' = [req EXCEPT ![r] = [@ EXCEPT !.pc = "rejected", !.error = 0]]
  /\ UNCHANGED <<useAxios, lineBufferPool, lineBuffers, cacheVars>>

\* handleApiError: the status of the error it throws
handleApiError(status) ==
  IF status # 0 THEN JNum(status, 1) ELSE JStr(<<"U", "n", "k", "n", "o", "w", "n">>)

\* the catch block of generateAssistantResponse, and the catch block of
\* with429Retry around it: the call is made again, or the error is thrown
catchError(r) ==
  /\ req[r].pc = "rejected"
  /\ LET rel == releaseLineBuffer(lineBufferPool, lineBuffers, req[r].lineBuffer)
         error == [NoOutcome EXCEPT !.status = handleApiError(req[r].error)]
     IN  /\ lineBufferPool' = rel.pool
         /\ lineBuffers' = rel.instances
         /\ req' = [req EXCEPT ![r] =
                      IF shouldRetry(ErrorStatus(error), @.attempt, Retries(JNum(safeRetries, 1)))
                        THEN [@ EXCEPT !.pc = "idle", !.attempt = @ + 1]
                        ELSE [@ EXCEPT !.pc = "thrown"]]
  /\ UNCHANGED <<useAxios, cacheVars>>

\* the pool cleanup registered with the memory manager: instances are
\* dropped from the top of the pool
lineBufferPoolCleanup(keep) ==
  /\ keep < Len(lineBufferPool)
  /\ lineBufferPool' = SubSeq(lineBufferPool, 1, keep)
  /\ UNCHANGED <<useAxios, lineBuffers, req, cacheVars>>

MaxRequests == 2

StreamIdle ==
  /\ useAxios = FALSE
  /\ lineBufferPool = << >>
  /\ lineBuffers = << >>
  /\ req = [r \in 1..MaxRequests |-> NoReq]

serverVars == <<srv, res, heartbeatTimer>>

\* the response object before the handler touches it
NoRes ==
  [headersSent |-> FALSE, writableEnded |-> FALSE, closed |-> FALSE,
   statusCode |-> 200, writes |-> << >>]

NoCode == -1

\* an empty error body
NoRawBody ==
  [kind |-> "empty", message |-> "", type |-> "", code |-> NoCode, callerDoesNot |-> FALSE]

NoError ==
  [message |-> "", status |-> JUndefined, rawBody |-> NoRawBody, isUpstreamApiError |-> FALSE]

\* tokenDisabled: tokenManager.disableCurrentToken(token) was called; error:
\* what reached the catch block of the handler
NoSrv ==
  [pc |-> "off", stream |-> FALSE, hasToolCall |-> FALSE, usageData |-> FALSE,
   tokenDisabled |-> FALSE, error |-> NoError]

ServerIdle ==
  /\ srv = NoSrv
  /\ res = NoRes
  /\ heartbeatTimer = "none"

(***************************************************************************)
(* TokenStore (the accounts file and its in-memory cache).  A record of    *)
(* the file has the fields refresh_token, access_token and enable; the     *)
(* field sessionId is "" where the object has no such property.  A call    *)
(* gives up control where it awaits the file system: _ensureFileExists     *)
(* changes nothing while the file exists, so a call waits at fs.readFile   *)
(* ("reading") and at _atomicWrite ("writing"); what runs between two      *)
(* such awaits is one step.                                                *)
(***************************************************************************)
FILE_CACHE_TTL == 1

Account(refresh_token, access_token, enable, sessionId) ==
  [refresh_token |-> refresh_token, access_token |-> access_token,
   enable |-> enable, sessionId |-> sessionId]

NoToken == Account("", "", FALSE, "")

StoredAccounts == <<Account("r1", "a1", TRUE, ""), Account("r2", "a2", FALSE, "")>>

NoCache == [present |-> FALSE, tokens |-> << >>]

NewTokenStore == [cache |-> NoCache, cacheTime |-> 0, lastReadOk |-> TRUE]

NoCall ==
  [op |-> "none", pc |-> "idle", activeTokens |-> << >>, tokenToUpdate |-> NoToken,
   allTokens |-> << >>, readFailed |-> FALSE, tokens |-> << >>, wrote |-> FALSE]

StoreCalls == {1, 2}

StoreIdle ==
  /\ file = [array |-> TRUE, tokens |-> << >>]
  /\ tokenStore = NewTokenStore
  /\ inFlight = [c \in StoreCalls |-> NoCall]

isCacheValid(st, t) == st.cache.present /\ t - st.cacheTime < FILE_CACHE_TTL

\* readAll from the completion of fs.readFile on: ok is FALSE when the read or
\* JSON.parse threw, f.array is FALSE when the file holds no JSON array.
readAllAfterRead(st, f, ok, t) ==
  IF ok /\ f.array
  THEN [store |-> [cache |-> [present |-> TRUE, tokens |-> f.tokens],
                   cacheTime |-> t, lastReadOk |-> TRUE],
        result |-> f.tokens]
  ELSE IF st.cache.present
       THEN [store |-> [st EXCEPT !.lastReadOk = FALSE, !.cacheTime = t],
             result |-> st.cache.tokens]
       ELSE [store |-> [st EXCEPT !.lastReadOk = FALSE], result |-> << >>]

RECURSIVE findIndex(_, _, _)
findIndex(allTokens, refresh_token, i) ==
  IF i > Len(allTokens) THEN 0
  ELSE IF allTokens[i].refresh_token = refresh_token THEN i
  ELSE findIndex(allTokens, refresh_token, i + 1)

\* applyUpdate that spreads the whole in-memory token over the record.
applyUpdateKeepsSessionId(allTokens, targetToken) ==
  LET index == findIndex(allTokens, targetToken.refresh_token, 1) IN
  IF targetToken = NoToken \/ index = 0 THEN allTokens
  ELSE [allTokens EXCEPT ![index] = targetToken]

applyUpdate(allTokens, targetToken) ==
  LET index == findIndex(allTokens, targetToken.refresh_token, 1) IN
  IF targetToken = NoToken \/ index = 0 THEN allTokens
  ELSE [allTokens EXCEPT ![index] =
          Account(targetToken.refresh_token, targetToken.access_token,
                  targetToken.enable, allTokens[index].sessionId)]

RECURSIVE applyUpdates(_, _)
applyUpdates(allTokens, activeTokens) ==
  IF activeTokens = << >> THEN allTokens
  ELSE applyUpdates(applyUpdate(allTokens, Head(activeTokens)), Tail(activeTokens))

rebuilt(activeTokens) ==
  [i \in 1..Len(activeTokens) |-> [activeTokens[i] EXCEPT !.sessionId = ""]]

\* mergeActiveTokens without the return of lines 164-167.
mergeActiveTokensWritesAfterFailedRead(allTokens, lastReadOk, activeTokens, tokenToUpdate) ==
  IF allTokens = << >> /\ activeTokens # << >>
  THEN [write |-> TRUE, tokens |-> rebuilt(activeTokens)]
  ELSE IF tokenToUpdate # NoToken
  THEN [write |-> TRUE, tokens |-> applyUpdate(allTokens, tokenToUpdate)]
  ELSE [write |-> TRUE, tokens |-> applyUpdates(allTokens, activeTokens)]

\* mergeActiveTokens from the return of readAll on: whether it calls writeAll,
\* and with which list.
mergeActiveTokensAfterRead(allTokens, lastReadOk, activeTokens, tokenToUpdate) ==
  IF ~lastReadOk /\ allTokens = << >>
  THEN [write |-> FALSE, tokens |-> << >>]
  ELSE IF allTokens = << >> /\ activeTokens # << >>
  THEN [write |-> TRUE, tokens |-> rebuilt(activeTokens)]
  ELSE IF tokenToUpdate # NoToken
  THEN [write |-> TRUE, tokens |-> applyUpdate(allTokens, tokenToUpdate)]
  ELSE [write |-> TRUE, tokens |-> applyUpdates(allTokens, activeTokens)]

\* The call after its readAll returned result; failed tells that no list was
\* read from the file (the read failed, or the last one had when the cache
\* answered).
AfterReadAll(call, lastReadOk, result, failed) ==
  IF call.op = "readAll"
  THEN [call EXCEPT !.pc = "returned", !.allTokens = result, !.readFailed = failed]
  ELSE LET m == mergeActiveTokensAfterRead(result, lastReadOk,
                                           call.activeTokens, call.tokenToUpdate)
       IN [call EXCEPT !.pc = IF m.write THEN "writing" ELSE "returned",
                       !.allTokens = result, !.readFailed = failed,
                       !.tokens = m.tokens]

StoreFrame ==
  UNCHANGED <<cacheVars, sanVars, trVars, retryVars, streamVars, serverVars>>

StartRead(c, call) ==
  /\ inFlight[c].pc = "idle"
  /\ inFlight' = [inFlight EXCEPT ![c] =
                 IF isCacheValid(tokenStore, now)
                 THEN AfterReadAll(call, tokenStore.lastReadOk, tokenStore.cache.tokens,
                                   ~tokenStore.lastReadOk)
                 ELSE [call EXCEPT !.pc = "reading"]]
  /\ UNCHANGED <<file, tokenStore>>
  /\ StoreFrame

readAll(c) == StartRead(c, [NoCall EXCEPT !.op = "readAll"])

mergeActiveTokens(c, activeTokens, tokenToUpdate) ==
  StartRead(c, [NoCall EXCEPT !.op = "mergeActiveTokens",
                              !.activeTokens = activeTokens,
                              !.tokenToUpdate = tokenToUpdate])

\* fs.readFile of a readAll completes (ok) or throws.
readFile(c, ok) ==
  /\ inFlight[c].pc = "reading"
  /\ LET r == readAllAfterRead(tokenStore, file, ok, now) IN
     /\ tokenStore' = r.store
     /\ inFlight' = [inFlight EXCEPT ![c] =
                    AfterReadAll(inFlight[c], r.store.lastReadOk, r.result,
                                 ~(ok /\ file.array))]
  /\ UNCHANGED file
  /\ StoreFrame

writeAll(c, tokens) ==
  /\ inFlight[c].pc = "idle"
  /\ inFlight' = [inFlight EXCEPT ![c] =
                 [NoCall EXCEPT !.op = "writeAll", !.pc = "writing", !.tokens = tokens]]
  /\ UNCHANGED <<file, tokenStore>>
  /\ StoreFrame

\* _atomicWrite of a writeAll completes (ok: the rename replaced the file) or
\* throws and leaves the file as it was.
atomicWrite(c, ok) ==
  /\ inFlight[c].pc = "writing"
  /\ IF ok
     THEN /\ file' = [array |-> TRUE, tokens |-> inFlight[c].tokens]
          /\ tokenStore' = [cache |-> [present |-> TRUE, tokens |-> inFlight[c].tokens],
                            cacheTime |-> now, lastReadOk |-> TRUE]
          /\ inFlight' = [inFlight EXCEPT ![c].pc = "returned", ![c].wrote = TRUE]
     ELSE /\ inFlight' = [inFlight EXCEPT ![c].pc = "thrown"]
          /\ UNCHANGED <<file, tokenStore>>
  /\ StoreFrame

\* The caller takes the outcome of a finished call.
Settle(c) ==
  /\ inFlight[c].pc \in {"returned", "thrown"}
  /\ inFlight' = [inFlight EXCEPT ![c] = NoCall]
  /\ UNCHANGED <<file, tokenStore>>
  /\ StoreFrame

StoreTick ==
  /\ now + FILE_CACHE_TTL <= MaxTime
  /\ now' = now + FILE_CACHE_TTL
  /\ UNCHANGED <<toolNameMap, reasoningSignatureCache, toolSignatureCache, returned>>
  /\ UNCHANGED <<storeVars, sanVars, trVars, retryVars, streamVars, serverVars>>

vars == <<cacheVars, sanVars, storeVars, trVars, retryVars, streamVars, serverVars>>

(***************************************************************************)
(* The translator on conversations of at most MaxMsgs messages, for        *)
(* thinking and non-thinking models of each family, with and without a     *)
(* session, from stores that hold no entry, a fresh entry or an expired    *)
(* entry for the request's session and model.                              *)
(***************************************************************************)
Msg(role, content, reasoning, sig, calls, tcid) ==
  [role |-> role, content |-> content, reasoning_content |-> reasoning,
   thoughtSignature |-> sig, tool_calls |-> calls, tool_call_id |-> tcid]

TC(id, nm, sig) == [id |-> id, name |-> nm, arguments |-> "{}", thoughtSignature |-> sig]

TrMessages ==
  { Msg("user", <<"h", "i">>, << >>, "", << >>, ""),
    Msg("system", <<"s">>, << >>, "", << >>, ""),
    Msg("assistant", <<"o", "k", " ">>, << >>, "", << >>, ""),
    Msg("assistant", << >>, <<"r">>, "sigM", <<TC("c1", <<"a", " ", "a">>, "")>>, ""),
    Msg("assistant", <<" ">>, << >>, "",
        <<TC("c2", <<"b">>, "sigT"), TC("c3", <<"b">>, "")>>, ""),
    Msg("tool", <<"o", "u", "t">>, << >>, "", << >>, "c1") }

RECURSIVE SeqsUpTo(_, _)
SeqsUpTo(S, n) ==
  IF n = 0 THEN {<< >>}
  ELSE LET shorter == SeqsUpTo(S, n - 1)
       IN  shorter \cup {Append(q, x) : q \in shorter, x \in S}

TrModels ==
  { <<"claude", "-sonnet-4-5", "-thinking">>,
    <<"claude", "-opus-4-5">>,
    <<"GEMINI", "-2.5-flash", "-thinking">>,
    <<"gpt-oss-120b-medium">> }

\* every model with a session, and one of them without
TrRequests ==
  { [messages |-> ms, model |-> m, tools |-> << >>, sessionId |-> "s1",
     parameters |-> NoParameters, config |-> NoConfig] :
      ms \in SeqsUpTo(TrMessages, MaxMsgs), m \in TrModels }
  \cup
  { [messages |-> ms, model |-> <<"claude", "-sonnet-4-5", "-thinking">>,
     tools |-> << >>, sessionId |-> "",
     parameters |-> NoParameters, config |-> NoConfig] :
      ms \in SeqsUpTo(TrMessages, MaxMsgs) }

\* the models whose signatures the stores hold when a request arrives
TrCachedModels == {<<"claude", "-sonnet-4-5">>, <<"GEMINI", "-2.5-flash", "-thinking">>}

\* a signature store in which session s1 has, for one model, a signature
\* written at time 0 or 1, or an empty store
TrStores(sig) ==
  {<< >>} \cup
  {setSignatureIn(<< >>, 1, t, "s1", m, sig) : t \in {0, 1}, m \in TrCachedModels}

TranslateInit ==
  /\ now = ENTRY_TTL_MS + 1
  /\ toolNameMap = << >>
  /\ reasoningSignatureCache \in TrStores("sigR")
  /\ toolSignatureCache \in TrStores("sigC")
  /\ returned = NoReturn
  /\ trPc = "idle"
  /\ reqIn = NoRequest
  /\ requestBody = NoBody
  /\ data = NoData
  /\ response = NoResponse
  /\ SanitizeIdle /\ StoreIdle /\ RetryIdle /\ StreamIdle /\ ServerIdle

TranslateFrame == UNCHANGED <<sanVars, storeVars, retryVars, streamVars, serverVars>>

TranslateNext ==
  \/ \E rq \in TrRequests : generateRequestBody(rq) /\ TranslateFrame
  \/ trPc = "idle" /\ SignatureSweep /\ UNCHANGED trVars /\ TranslateFrame
  \/ \E p \in Pressures :
       trPc = "idle" /\ MemoryPressureSignal(p) /\ UNCHANGED trVars /\ TranslateFrame

TranslateSpec == TranslateInit /\ [][TranslateNext]_vars

ModelTurns == {i \in 1..Len(requestBody.contents) : requestBody.contents[i].role = "model"}

\* C4: with thinking enabled, every model turn of the translated contents
\* holds a thought part with a non-empty text directly followed by a part
\* with a non-empty thoughtSignature.
ThinkingTurnsCarryThoughtAndSignature ==
  (trPc = "translated" /\ requestBody.enableThinking) =>
    \A t \in ModelTurns :
      LET parts == requestBody.contents[t].parts IN
      \E i \in 1..(Len(parts) - 1) :
        /\ parts[i].kind = "text" /\ parts[i].thought /\ parts[i].text # << >>
        /\ parts[i + 1].thoughtSignature # ""

\* a model turn built from a message without reasoning text, to which the
\* tool calls of a later message were merged
MergedTurnWithPlaceholder ==
  /\ trPc = "translated" /\ requestBody.enableThinking
  /\ \E t \in ModelTurns :
       LET parts == requestBody.contents[t].parts IN
       /\ parts[1].thought /\ parts[1].text = <<" ">>
       /\ reqIn.messages[parts[1].msg].reasoning_content = << >>
       /\ \E i \in 1..Len(parts) :
            parts[i].kind = "functionCall" /\ parts[i].msg # parts[1].msg

(***************************************************************************)
(* The caches under any sequence of their operations, with more keys than  *)
(* each ceiling admits.                                                    *)
(***************************************************************************)
SessionIds == <<"s1", "s2", "s3", "s4", "s5">>

SafeNames == <<"a", "b", "c", "d", "e">>

CacheReasoningSessions == {SessionIds[i] : i \in 1..(MAX_REASONING_ENTRIES + 1)}

CacheToolSessions == {SessionIds[i] : i \in 1..(MAX_TOOL_ENTRIES + 1)}

CacheModel == <<"gemini", "-2.5-flash">>

CacheSafeNames == {<<SafeNames[i]>> : i \in 1..(MAX_ENTRIES + 1)}

\* for a safe name: no original name, the same name, a name that differs
CacheOriginalNames(safeName) == {<< >>, safeName, safeName \o <<"!">>}

CacheSignatures == {"", "sigA"}

CacheFrame == UNCHANGED <<sanVars, storeVars, trVars, retryVars, streamVars, serverVars>>

CacheNext ==
  \/ \E n \in CacheSafeNames : \E o \in CacheOriginalNames(n) :
       setToolNameMapping("s1", CacheModel, n, o) /\ CacheFrame
  \/ \E n \in CacheSafeNames :
       getOriginalToolName("s1", CacheModel, n) /\ UNCHANGED returned /\ CacheFrame
  \/ \E s \in CacheReasoningSessions, sig \in CacheSignatures :
       setReasoningSignature(s, CacheModel, sig) /\ CacheFrame
  \/ \E s \in CacheReasoningSessions :
       getReasoningSignature(s, CacheModel) /\ UNCHANGED returned /\ CacheFrame
  \/ \E s \in CacheToolSessions, sig \in CacheSignatures :
       setToolSignature(s, CacheModel, sig) /\ CacheFrame
  \/ \E s \in CacheToolSessions :
       getToolSignature(s, CacheModel) /\ UNCHANGED returned /\ CacheFrame
  \/ ToolNameSweep /\ CacheFrame
  \/ SignatureSweep /\ CacheFrame
  \/ \E p \in Pressures : MemoryPressureSignal(p) /\ CacheFrame
  \/ Tick(ENTRY_TTL_MS + 1) /\ CacheFrame

CacheSpecInit ==
  CacheInit /\ SanitizeIdle /\ StoreIdle /\ TranslateIdle /\ RetryIdle /\ StreamIdle /\ ServerIdle

CacheSpec == CacheSpecInit /\ [][CacheNext]_vars

\* C1: after any sequence of set, get, sweep and memory-pressure operations
\* no store holds more entries than its ceiling.
StoresWithinCeiling ==
  /\ Len(toolNameMap) <= MAX_ENTRIES
  /\ Len(reasoningSignatureCache) <= MAX_REASONING_ENTRIES
  /\ Len(toolSignatureCache) <= MAX_TOOL_ENTRIES

\* every store is at its ceiling, each holding a key that was set after the
\* clock advanced, the key set first being gone
StoresFull ==
  /\ Len(toolNameMap) = MAX_ENTRIES
  /\ Len(reasoningSignatureCache) = MAX_REASONING_ENTRIES
  /\ Len(toolSignatureCache) = MAX_TOOL_ENTRIES
  /\ toolNameMap[1].ts = 0 /\ toolNameMap[MAX_ENTRIES].ts > 0
  /\ reasoningSignatureCache[MAX_REASONING_ENTRIES].ts > 0
  /\ toolSignatureCache[MAX_TOOL_ENTRIES].ts > 0

SanitizeSpecInit ==
  SanitizeInit /\ StoreIdle /\ CacheInit /\ TranslateIdle /\ RetryIdle /\ StreamIdle /\ ServerIdle

SanitizeNext ==
  Sanitize /\ UNCHANGED <<cacheVars, storeVars, trVars, retryVars, streamVars, serverVars>>

SanitizeSpec == SanitizeSpecInit /\ [][SanitizeNext]_vars

\* C3: for every input (a string of any content and length, the empty string,
\* a value that is no string) sanitizeToolName returns 1..128 characters, each
\* a letter, a digit, '_' or '-'; an input with no character that survives
\* the replacement and the stripping of '_' returns the literal 'tool'.
SanitizedNameIsLegal ==
  sanPc = "done" =>
    /\ Len(cleaned) \in 1..128
    /\ \A i \in 1..Len(cleaned) : cleaned[i] \in LegalChars
    /\ (\/ name.type # "string"
        \/ \A i \in 1..Len(name.s) : name.s[i] \notin (LegalChars \ {"_"}))
         => cleaned = <<"t", "o", "o", "l">>

\* a name longer than 128 characters was cut to 128, and a name made of
\* illegal characters only became 'tool'
SanitizedLongName ==
  /\ sanPc = "done"
  /\ name.type = "string"
  /\ Len(name.s) > 128
  /\ name.s[1] = "_"
  /\ Len(cleaned) = 128

\* the step from a chat request to its upstream body
TranslateStep == trPc = "idle" /\ trPc' = "translated"

\* the unexpired entry of a store for a key, NULL when absent or expired
FreshSignature(map, key) ==
  IF \E i \in 1..Len(map) : map[i].key = key /\ now - map[i].ts <= ENTRY_TTL_MS
    THEN map[CHOOSE i \in 1..Len(map) : map[i].key = key].val
    ELSE NULL

\* the family default of a model name, whatever the case of its letters
FamilyDefault(model) ==
  LET has(tok) == \E i \in 1..Len(model) : LowerToken(model[i]) = tok IN
  CASE has("claude") -> CLAUDE_THOUGHT_SIGNATURE
    [] has("gemini") -> GEMINI_THOUGHT_SIGNATURE
    [] OTHER         -> DEFAULT_THOUGHT_SIGNATURE

\* the signature placeholder parts: {text: ' ', thoughtSignature}
IsPlaceholder(part) == part.kind = "text" /\ ~part.thought /\ part.thoughtSignature # ""

\* C5: with thinking enabled the placeholder of an assistant turn carries the
\* message's own thoughtSignature, else the unexpired cached reasoning
\* signature of (session, model), else the family default; each tool-call
\* part carries the call's own signature, else the unexpired cached tool
\* signature, else the tool fallback constant.  With thinking disabled no
\* tool-call part carries a thoughtSignature.
SignaturePriority ==
  [][TranslateStep =>
      LET body == requestBody'
          key == makeSigKey(body.sessionId, body.model)
      IN  \A t \in 1..Len(body.contents) :
            \A i \in 1..Len(body.contents[t].parts) :
              LET part == body.contents[t].parts[i]
                  message == reqIn'.messages[part.msg]
              IN  /\ (body.enableThinking /\ IsPlaceholder(part)) =>
                       part.thoughtSignature =
                         IF message.thoughtSignature # "" THEN message.thoughtSignature
                         ELSE IF FreshSignature(reasoningSignatureCache, key) # NULL
                           THEN FreshSignature(reasoningSignatureCache, key)
                         ELSE FamilyDefault(body.model)
                  /\ (body.enableThinking /\ part.kind = "functionCall") =>
                       part.thoughtSignature =
                         IF message.tool_calls[part.call].thoughtSignature # ""
                           THEN message.tool_calls[part.call].thoughtSignature
                         ELSE IF FreshSignature(toolSignatureCache, key) # NULL
                           THEN FreshSignature(toolSignatureCache, key)
                         ELSE TOOL_THOUGHT_SIGNATURE
                  /\ (~body.enableThinking /\ part.kind = "functionCall") =>
                       part.thoughtSignature = ""
     ]_vars

\* a translated conversation with a placeholder that carries the cached
\* reasoning signature, a tool call that carries the cached tool signature
\* and a tool call that carries its own
CachedSignaturesUsed ==
  /\ trPc = "translated" /\ requestBody.enableThinking
  /\ \E t \in 1..Len(requestBody.contents) :
       LET parts == requestBody.contents[t].parts IN
       /\ \E i \in 1..Len(parts) : IsPlaceholder(parts[i]) /\ parts[i].thoughtSignature = "sigR"
       /\ \E i \in 1..Len(parts) :
            parts[i].kind = "functionCall" /\ parts[i].thoughtSignature = "sigC"
       /\ \E i \in 1..Len(parts) :
            parts[i].kind = "functionCall" /\ parts[i].thoughtSignature = "sigT"

\* the contents of a body, the signatures of its parts blanked
Unsigned(contents) ==
  [t \in 1..Len(contents) |->
     [p \in 1..Len(contents[t].parts) |->
        [contents[t].parts[p] EXCEPT !.thoughtSignature = ""]]]

\* C6: whatever the stores hold, every request is translated, to the
\* contents it has with empty stores but for the signatures; a placeholder
\* built for a message without a signature of its own, when the reasoning
\* store has no unexpired entry for (session, model), carries the Claude
\* default if the model name contains 'claude', the Gemini default if it
\* contains 'gemini', the universal fallback otherwise.  (The translation
\* leaves the clock alone and removes from the store only an expired entry,
\* so the store after the step has an unexpired entry exactly when the
\* store before it had.)
FallbackToFamilyDefault ==
  /\ trPc = "idle" =>
       \A rq \in TrRequests :
         Unsigned(generateRequestBodyOf(rq, toolNameMap, reasoningSignatureCache,
                                        toolSignatureCache).body.contents)
           = Unsigned(generateRequestBodyOf(rq, << >>, << >>, << >>).body.contents)
  /\ trPc = "translated" =>
       LET body == requestBody
           key == makeSigKey(body.sessionId, body.model)
       IN  \A t \in 1..Len(body.contents) :
             \A i \in 1..Len(body.contents[t].parts) :
               LET part == body.contents[t].parts[i] IN
               ( /\ body.enableThinking
                 /\ IsPlaceholder(part)
                 /\ reqIn.messages[part.msg].thoughtSignature = ""
                 /\ FreshSignature(reasoningSignatureCache, key) = NULL )
               => part.thoughtSignature =
                    CASE Contains(toLowerCase(body.model), "claude") ->
                           CLAUDE_THOUGHT_SIGNATURE
                      [] Contains(toLowerCase(body.model), "gemini") ->
                           GEMINI_THOUGHT_SIGNATURE
                      [] OTHER -> DEFAULT_THOUGHT_SIGNATURE

\* a request for a Gemini model translated while the store holds no
\* signature for its session and model: the placeholder carries the Gemini default
ExpiredEntryFallsBack ==
  /\ trPc = "translated" /\ requestBody.enableThinking
  /\ requestBody.sessionId = "s1"
  /\ ~MapHas(reasoningSignatureCache, makeSigKey("s1", requestBody.model))
  /\ \E t \in 1..Len(requestBody.contents) :
       \E i \in 1..Len(requestBody.contents[t].parts) :
         /\ IsPlaceholder(requestBody.contents[t].parts[i])
         /\ requestBody.contents[t].parts[i].thoughtSignature = GEMINI_THOUGHT_SIGNATURE

(***************************************************************************)
(* The tool-name round trip: a request that declares tools and may carry   *)
(* an assistant tool call is translated, time passes and the cleanups      *)
(* run, and the upstream's answer with function calls is rendered.         *)
(***************************************************************************)
MaxTools == 2

ToolNames == {<<"a", " ", "a">>, <<"a", "!", "a">>, <<"b", " ">>}

ToolModels == {<<"claude", "-opus-4-5">>, <<"gemini", "-2.5-flash">>}

ToolHistories ==
  {<< >>} \cup
  {<<Msg("user", <<"h", "i">>, << >>, "", << >>, ""),
     Msg("assistant", << >>, << >>, "", <<TC("c1", n, "")>>, "")>> : n \in ToolNames}

ToolRequests ==
  { [messages |-> ms, model |-> m, tools |-> ts, sessionId |-> "s1",
     parameters |-> NoParameters, config |-> NoConfig] :
      ms \in ToolHistories, m \in ToolModels, ts \in SeqsUpTo(ToolNames, MaxTools) }

\* the upstream answers with one function call, by a name it was given
ToolAnswers ==
  { [parts |-> <<UPart("functionCall", << >>, "", "c9", n)>>, usageMetadata |-> NoUsage] :
      n \in {sanitizeToolName(Str(o)) : o \in ToolNames} }

ToolNameInit ==
  /\ now = 0
  /\ toolNameMap = << >>
  /\ reasoningSignatureCache = << >>
  /\ toolSignatureCache = << >>
  /\ returned = NoReturn
  /\ trPc = "idle"
  /\ reqIn = NoRequest
  /\ requestBody = NoBody
  /\ data = NoData
  /\ response = NoResponse
  /\ SanitizeIdle /\ StoreIdle /\ RetryIdle /\ StreamIdle /\ ServerIdle

ToolNameFrame == UNCHANGED <<sanVars, storeVars, retryVars, streamVars, serverVars>>

ToolNameNext ==
  \/ \E rq \in ToolRequests : generateRequestBody(rq) /\ ToolNameFrame
  \/ \E d \in ToolAnswers : generateAssistantResponseNoStream(d) /\ ToolNameFrame
  \/ trPc = "translated" /\ Tick(1) /\ UNCHANGED trVars /\ ToolNameFrame
  \/ trPc = "translated" /\ ToolNameSweep /\ UNCHANGED trVars /\ ToolNameFrame
  \/ \E p \in Pressures :
       trPc = "translated" /\ MemoryPressureSignal(p) /\ UNCHANGED trVars /\ ToolNameFrame

ToolNameSpec == ToolNameInit /\ [][ToolNameNext]_vars

\* the tool names the translator processed for a request: the declared
\* tools and the tool calls of its assistant messages
ProcessedNames(rq) ==
  {rq.tools[i] : i \in 1..Len(rq.tools)} \cup
  UNION {{rq.messages[i].tool_calls[j].name : j \in 1..Len(rq.messages[i].tool_calls)} :
           i \in 1..Len(rq.messages)}

\* the store holds an unexpired entry for the safe name
MappingLive(safeName) ==
  LET key == makeKey(requestBody.sessionId, requestBody.model, safeName) IN
  MapHas(toolNameMap, key) /\ now - MapGet(toolNameMap, key).ts <= ENTRY_TTL_MS

\* C2: every tool name that sanitization changes and that the translator
\* processed for the request is rendered back: a function call that carries
\* its sanitized name, while the store still holds an unexpired entry for
\* that name, reaches the client with the original name.
EveryOriginalNameRestored ==
  [][(trPc = "translated" /\ trPc' = "responded") =>
      \A original \in ProcessedNames(reqIn) :
        LET safeName == sanitizeToolName(Str(original)) IN
        ( /\ safeName # original
          /\ data'.parts[1].name = safeName
          /\ MappingLive(safeName) )
        => response'.toolCalls[1].name = original
    ]_vars

\* the same for the requests in which no two processed names share a
\* sanitized name
UniqueNamesRestored ==
  [][(trPc = "translated" /\ trPc' = "responded") =>
      \A original \in ProcessedNames(reqIn) :
        LET safeName == sanitizeToolName(Str(original)) IN
        ( /\ safeName # original
          /\ \A other \in ProcessedNames(reqIn) :
               sanitizeToolName(Str(other)) = safeName => other = original
          /\ data'.parts[1].name = safeName
          /\ MappingLive(safeName) )
        => response'.toolCalls[1].name = original
    ]_vars

(***************************************************************************)
(* with429Retry called with every kind of budget, around a function whose  *)
(* calls resolve or reject with and without a status.  Every call of fn    *)
(* settles: that is the fairness of the specification.                     *)
(***************************************************************************)
MaxBudget == 2

\* budgets: NaN, the infinities, no number at all, and the multiples of 1/2
\* from -1 to MaxBudget + 1/2
RetryBudgets ==
  {NaN, PosInfinity, NegInfinity, JUndefined, JStr(<<"3">>)}
  \cup {JNum(k, 2) : k \in -2..(2 * MaxBudget + 1)}

\* the (status, response.status) pairs of the errors fn rejects with
RetryErrors ==
  { <<JNum(429, 1), JUndefined>>, <<JStr(<<"4", "2", "9">>), JUndefined>>,
    <<JUndefined, JNum(429, 1)>>, <<JNum(500, 1), JNum(429, 1)>>,
    <<JUndefined, JUndefined>>, <<JStr(<<"U", "n", "k", "n", "o", "w", "n">>), JUndefined>> }

RetryInit ==
  /\ rtPc = "idle"
  /\ maxRetries = JUndefined
  /\ attempt = 0
  /\ fnCalls = << >>
  /\ settled = NoOutcome
  /\ CacheInit /\ SanitizeIdle /\ StoreIdle /\ TranslateIdle /\ StreamIdle /\ ServerIdle

RetryFrame == UNCHANGED <<cacheVars, sanVars, storeVars, trVars, streamVars, serverVars>>

RetryNext ==
  \/ \E budget \in RetryBudgets : with429Retry(budget) /\ RetryFrame
  \/ fnResolves /\ RetryFrame
  \/ \E e \in RetryErrors : fnRejects(e[1], e[2]) /\ RetryFrame

RetrySpec == RetryInit /\ [][RetryNext]_vars /\ WF_vars(RetryNext)

\* a rejection whose status, own or of the response, is the number 429
Is429(error) ==
  \/ error.status = JNum(429, 1)
  \/ error.status = JStr(<<"4", "2", "9">>)
  \/ ~Truthy(error.status) /\ error.responseStatus = JNum(429, 1)

\* the largest integer not above a positive finite budget, 0 for any other
BudgetFloor ==
  IF maxRetries.kind = "number" /\ maxRetries.num > 0
    THEN CHOOSE k \in 0..maxRetries.num :
           k * maxRetries.den <= maxRetries.num /\ (k + 1) * maxRetries.den > maxRetries.num
    ELSE 0

RetryDone == rtPc \in {"returned", "thrown"}

RetrySafety ==
  /\ Len(fnCalls) <= BudgetFloor + 1
  /\ \A i \in 1..(Len(fnCalls) - 1) : ~fnCalls[i].ok /\ Is429(fnCalls[i])
  /\ rtPc = "returned" => fnCalls[Len(fnCalls)].ok /\ settled = fnCalls[Len(fnCalls)]
  /\ rtPc = "thrown" =>
       /\ ~fnCalls[Len(fnCalls)].ok /\ settled = fnCalls[Len(fnCalls)]
       /\ Is429(settled) => Len(fnCalls) = BudgetFloor + 1
  /\ (RetryDone /\ BudgetFloor = 0) => Len(fnCalls) = 1

\* C10: with429Retry terminates; it calls fn at most floor(maxRetries)+1
\* times, returns what the first successful call returned, throws the last
\* 429 error when every call of the budget was answered 429, and calls fn
\* exactly once when the budget is zero, negative or no finite number.
RetryTerminatesWithinBudget ==
  /\ []RetrySafety
  /\ rtPc = "calling" ~> RetryDone

\* the budget 2.5 used up: three calls answered 429, the third error thrown
BudgetExhausted ==
  /\ rtPc = "thrown" /\ maxRetries = JNum(5, 2)
  /\ Len(fnCalls) = 3 /\ Is429(settled) /\ settled.n = 3

\* C11: a failure whose status is not 429 (another status, a status on the
\* response only behind an own status, or no status at all) is never
\* retried: it is the last call of fn and it is the error with429Retry
\* throws, whatever budget remains.
NonRateLimitFailureNotRetried ==
  \A i \in 1..Len(fnCalls) :
    (~fnCalls[i].ok /\ ~Is429(fnCalls[i])) =>
      /\ i = Len(fnCalls)
      /\ rtPc = "thrown"
      /\ settled = fnCalls[i]

\* a transport error without status thrown after one retry, with budget left
TransportErrorThrownWithBudgetLeft ==
  /\ rtPc = "thrown"
  /\ settled.status = JUndefined /\ settled.responseStatus = JUndefined
  /\ Len(fnCalls) = 2
  /\ BudgetFloor = 2

(***************************************************************************)
(* One streamed response on either transport: the upstream sends at most   *)
(* MaxLines lines, the last one with or without its newline, cut into      *)
(* chunks at any positions.                                                *)
(***************************************************************************)
MaxLines == 2

StreamLines ==
  { DATA_PREFIX \o <<"{", "t", "C3", "A9", ";", "}">>,
    DATA_PREFIX \o <<"{", "H", "x", ";", "f", "F", "u", "}">>,
    DATA_PREFIX \o <<"{", "t", "x">>,
    <<":", "h", "b">>,
    << >> }

RECURSIVE joinLines(_)
joinLines(lines) ==
  IF lines = << >> THEN << >> ELSE lines[1] \o <<"\n">> \o joinLines(Tail(lines))

StreamInputs ==
  {joinLines(ls) : ls \in SeqsUpTo(StreamLines, MaxLines)}
  \cup {joinLines(ls) \o l : ls \in SeqsUpTo(StreamLines, MaxLines - 1),
                             l \in StreamLines \ {<< >>}}

StreamBody == [NoBody EXCEPT !.model = <<"gemini", "-2.5-flash">>, !.sessionId = "s1"]

StreamInit ==
  /\ CacheInit
  /\ trPc = "off" /\ reqIn = NoRequest /\ requestBody = StreamBody
  /\ data = NoData /\ response = NoResponse
  /\ useAxios \in BOOLEAN
  /\ lineBufferPool = << >>
  /\ lineBuffers = << >>
  /\ \E input \in StreamInputs :
       req = [r \in 1..MaxRequests |->
                IF r = 1 THEN [NoReq EXCEPT !.input = input]
                ELSE [NoReq EXCEPT !.pc = "off"]]
  /\ SanitizeIdle /\ StoreIdle /\ RetryIdle /\ ServerIdle

StreamStatuses == {200, 429}

StreamFrame == UNCHANGED <<sanVars, storeVars, trVars, retryVars, serverVars>>

StreamNext ==
  \/ generateAssistantResponse(1) /\ StreamFrame
  \/ axiosResolves(1) /\ StreamFrame
  \/ \E status \in {429, 0} : axiosRejects(1, status) /\ StreamFrame
  \/ \E k \in 1..(MaxLines * 16) : axiosData(1, k) /\ StreamFrame
  \/ axiosEnd(1) /\ StreamFrame
  \/ axiosError(1) /\ StreamFrame
  \/ \E status \in StreamStatuses : onStart(1, status) /\ StreamFrame
  \/ \E k \in 1..(MaxLines * 16) : onData(1, k) /\ StreamFrame
  \/ onEnd(1) /\ StreamFrame
  \/ onError(1) /\ StreamFrame
  \/ catchError(1) /\ StreamFrame

StreamSpec == StreamInit /\ [][StreamNext]_vars

\* what the parser emits for the bytes when they arrive as one chunk
oneChunkEvents(bytes) ==
  parseLines(append(NewLineBuffer, toString(bytes)).lines, 1,
             [state |-> NoState, events |-> << >>, toolNameMap |-> << >>,
              reasoningSignatureCache |-> << >>, toolSignatureCache |-> << >>],
             requestBody.sessionId, requestBody.model).events

\* C8: the events the streaming parser emits for a response are those it
\* emits when the bytes of the response arrive as one chunk, however the
\* bytes were cut into chunks.
EventsIndependentOfChunking ==
  (req[1].pc = "returned" /\ req[1].attempt = 0) =>
    req[1].events = oneChunkEvents(req[1].input)

\* the same on the requester transport, whose chunks are strings
RequesterEventsIndependentOfChunking ==
  (~useAxios /\ req[1].pc = "returned" /\ req[1].attempt = 0) =>
    req[1].events = oneChunkEvents(req[1].input)

\* C9: for every line buffer, the lines it returned since it was cleared,
\* each followed by a newline, and then its retained buffer, are the chunks
\* appended to it since then; the retained buffer holds no newline, and so
\* no line was returned to the parser before its newline had arrived.
LinesAndBufferAreTheChunks ==
  \A id \in 1..Len(lineBuffers) :
    LET lb == lineBuffers[id] IN
    /\ joinLines(lb.emitted) \o lb.buffer = lb.appended
    /\ \A i \in 1..Len(lb.buffer) : lb.buffer[i] # "\n"
    /\ \A l \in 1..Len(lb.emitted) :
         \A i \in 1..Len(lb.emitted[l]) : lb.emitted[l][i] # "\n"

\* a buffer that returned a line completed by a later chunk and retains the
\* beginning of the next line
PartialLineRetained ==
  \E id \in 1..Len(lineBuffers) :
    /\ Len(lineBuffers[id].emitted) = 1
    /\ lineBuffers[id].buffer = SubSeq(DATA_PREFIX, 1, 3)
    /\ req[1].pc = "streaming"
    /\ Len(req[1].events) = 1

(***************************************************************************)
(* MaxRequests concurrent streamed requests, every answer of the upstream  *)
(* and every interleaving of their handlers.                               *)
(***************************************************************************)
PoolInit ==
  /\ CacheInit
  /\ trPc = "off" /\ reqIn = NoRequest /\ requestBody = StreamBody
  /\ data = NoData /\ response = NoResponse
  /\ useAxios \in BOOLEAN
  /\ lineBufferPool = << >>
  /\ lineBuffers = << >>
  /\ req = [r \in 1..MaxRequests |-> [NoReq EXCEPT !.input = <<"x", "\n">>]]
  /\ SanitizeIdle /\ StoreIdle /\ RetryIdle /\ ServerIdle

PoolNext ==
  \/ \E r \in 1..MaxRequests : generateAssistantResponse(r) /\ StreamFrame
  \/ \E r \in 1..MaxRequests : axiosResolves(r) /\ StreamFrame
  \/ \E r \in 1..MaxRequests, status \in {429, 0} : axiosRejects(r, status) /\ StreamFrame
  \/ \E r \in 1..MaxRequests, k \in 1..2 : axiosData(r, k) /\ StreamFrame
  \/ \E r \in 1..MaxRequests : axiosEnd(r) /\ StreamFrame
  \/ \E r \in 1..MaxRequests : axiosError(r) /\ StreamFrame
  \/ \E r \in 1..MaxRequests, status \in StreamStatuses : onStart(r, status) /\ StreamFrame
  \/ \E r \in 1..MaxRequests, k \in 1..2 : onData(r, k) /\ StreamFrame
  \/ \E r \in 1..MaxRequests : onEnd(r) /\ StreamFrame
  \/ \E r \in 1..MaxRequests : onError(r) /\ StreamFrame
  \/ \E r \in 1..MaxRequests : catchError(r) /\ StreamFrame
  \/ \E keep \in 0..LineBufferPoolMax : lineBufferPoolCleanup(keep) /\ StreamFrame

PoolSpec == PoolInit /\ [][PoolNext]_vars

\* the calls that hold a line buffer and may still append to it
InFlight == {r \in 1..MaxRequests : req[r].pc \in {"awaiting", "streaming"}}

\* C7: no two unfinished calls hold the same LineBuffer instance, no
\* instance in the pool is held by an unfinished call, and the pool never
\* contains an instance twice.
NoSharedLineBuffer ==
  /\ \A r1, r2 \in InFlight : r1 # r2 => req[r1].lineBuffer # req[r2].lineBuffer
  /\ \A r \in InFlight : \A i \in 1..Len(lineBufferPool) : lineBufferPool[i] # req[r].lineBuffer
  /\ \A i, j \in 1..Len(lineBufferPool) : i # j => lineBufferPool[i] # lineBufferPool[j]

\* the same on the axios transport
NoSharedLineBufferAxios == useAxios => NoSharedLineBuffer

\* two unfinished calls appending to one instance
TwoCallsOneBuffer ==
  \E r1, r2 \in InFlight : r1 # r2 /\ req[r1].lineBuffer = req[r2].lineBuffer

(***************************************************************************)
(* The handler of POST /v1/chat/completions (server.js).  res.writes is    *)
(* the sequence of writes the handler and the heartbeat timer made on the  *)
(* response: a heartbeat comment, the prefix, the JSON of a data chunk and  *)
(* the suffix (the three writes of writeStreamData), the [DONE] sentinel,  *)
(* or a JSON body (res.json).  Every write records the                     *)
(* attempt of the upstream call during which it was made and whether the   *)
(* client had already closed the connection.                               *)
(***************************************************************************)
MaxHeartbeats == 2

Write(kind, delta, finish, usage, status, payload) ==
  [kind |-> kind, delta |-> delta, finish_reason |-> finish, usage |-> usage,
   status |-> status, payload |-> payload, attempt |-> 0, closed |-> FALSE]

NoPayload == [message |-> "", type |-> "", code |-> NoCode]

SSE_HEARTBEAT == Write("heartbeat", "", "", FALSE, 0, NoPayload)

SSE_DONE == Write("done", "", "", FALSE, 0, NoPayload)

SSE_PREFIX == Write("prefix", "", "", FALSE, 0, NoPayload)

SSE_SUFFIX == Write("suffix", "", "", FALSE, 0, NoPayload)

\* res.write(x) during attempt n of the upstream call
resWrite(r, w, n) ==
  [r EXCEPT !.headersSent = TRUE,
            !.writes = Append(@, [w EXCEPT !.attempt = n, !.closed = r.closed])]

\* res.end()
resEnd(r) == [r EXCEPT !.headersSent = TRUE, !.writableEnded = TRUE]

\* res.status(status).json(payload)
resJson(r, status, payload, n) ==
  resEnd(resWrite([r EXCEPT !.statusCode = status],
                  Write("json", "", "", FALSE, status, payload), n))

\* createStreamChunk(id, created, model, delta, finish_reason) handed to
\* writeStreamData
createStreamChunk(delta, finish_reason, usage) ==
  Write("chunk", delta, finish_reason, usage, 0, NoPayload)

\* writeStreamData that leaves the frame without its suffix
writeStreamDataNoSuffix(r, chunk, n) == resWrite(resWrite(r, SSE_PREFIX, n), chunk, n)

writeStreamData(r, chunk, n) ==
  resWrite(resWrite(resWrite(r, SSE_PREFIX, n), chunk, n), SSE_SUFFIX, n)

\* an endStream that closes without the sentinel
endStreamNoSentinel(r, n) == IF r.writableEnded THEN r ELSE resEnd(r)

endStream(r, n) ==
  IF r.writableEnded THEN r ELSE resEnd(resWrite(r, SSE_DONE, n))

\* the callback the streaming branch hands to generateAssistantResponse,
\* applied to the events from index i on; st is [res, srv]
RECURSIVE streamCallback(_, _, _, _)
streamCallback(events, i, st, n) ==
  IF i > Len(events) THEN st
  ELSE
    LET ev == events[i]
        st1 ==
          CASE ev.type = "usage" -> [st EXCEPT !.srv.usageData = TRUE]
            [] ev.type = "reasoning" ->
                 [st EXCEPT !.res = writeStreamData(@, createStreamChunk("reasoning_content",
                                                                         "", FALSE), n)]
            [] ev.type = "tool_calls" ->
                 [st EXCEPT !.srv.hasToolCall = TRUE,
                            !.res = writeStreamData(@, createStreamChunk("tool_calls",
                                                                         "", FALSE), n)]
            [] OTHER ->
                 [st EXCEPT !.res = writeStreamData(@, createStreamChunk("content",
                                                                         "", FALSE), n)]
    IN  streamCallback(events, i + 1, st1, n)

\* the error bodies of the upstream, as JSON.parse and the property reads
\* of buildOpenAIErrorPayload see them: empty, not JSON, or a JSON object
\* whose error (or itself) has or lacks message, type and code
ErrorBodies ==
  { NoRawBody,
    [NoRawBody EXCEPT !.kind = "text"],
    [NoRawBody EXCEPT !.kind = "text", !.callerDoesNot = TRUE],
    [NoRawBody EXCEPT !.kind = "json"],
    [NoRawBody EXCEPT !.kind = "json", !.message = "quota", !.type = "rate_limit",
                      !.code = 8] }

\* createApiError(message, status, rawBody)
createApiError(message, status, rawBody) ==
  [message |-> message, status |-> status, rawBody |-> rawBody,
   isUpstreamApiError |-> TRUE]

\* new Error(message)
NewError(message) == [NoError EXCEPT !.message = message]

\* a handleApiError that disables the token on every 403
disablesTokenOnEvery403(status, errorBody) == status = 403

\* handleApiError: tokenManager.disableCurrentToken(token) is called
disablesToken(status, errorBody) == status = 403 /\ ~errorBody.callerDoesNot

\* handleApiError: the error it throws for a failure with this status (0 for
\* none) and this body
throwApiError(status, errorBody) ==
  createApiError(IF status # 403 THEN "API request failed"
                 ELSE IF errorBody.callerDoesNot THEN "context exceeded"
                 ELSE "account disabled",
                 handleApiError(status), errorBody)

buildOpenAIErrorPayload(error, statusCode) ==
  IF error.isUpstreamApiError /\ error.rawBody.kind # "empty"
    THEN IF error.rawBody.kind = "json"
           THEN [message |-> IF error.rawBody.message # "" THEN error.rawBody.message
                             ELSE IF error.message # "" THEN error.message
                             ELSE "Upstream API error",
                 type |-> IF error.rawBody.type # "" THEN error.rawBody.type
                          ELSE "upstream_api_error",
                 code |-> IF error.rawBody.code # NoCode THEN error.rawBody.code
                          ELSE statusCode]
           ELSE [message |-> "rawBody", type |-> "upstream_api_error", code |-> statusCode]
    ELSE [message |-> IF error.message # "" THEN error.message
                      ELSE "Internal server error",
          type |-> "server_error", code |-> statusCode]

\* a status code that ignores the status of the error
errorStatusCodeAlways500(error) == 500

\* Number(error.status) || 500
errorStatusCode(error) ==
  LET n == ToNumber(error.status) IN
  IF n.kind = "number" /\ n.num # 0 THEN n.num \div n.den ELSE 500

\* the catch block of the handler
catchHandlerError(r, error, n) ==
  IF r.headersSent THEN r
  ELSE resJson(r, errorStatusCode(error),
               buildOpenAIErrorPayload(error, errorStatusCode(error)), n)

\* a close handler that leaves the timer running
resOnCloseKeepsTimer(timer) == timer

\* res.on('close', () => clearInterval(timer))
resOnClose(timer) == IF timer = "active" THEN "cleared" ELSE timer

\* clearInterval(heartbeatTimer)
clearInterval(timer) == IF timer = "active" THEN "cleared" ELSE timer

(***************************************************************************)
(* One request to the handler: a streaming or a non-streaming chat         *)
(* completion, on either transport, the upstream answering 200, 429 or     *)
(* 500, or failing without a status before or in the middle of the body;   *)
(* the heartbeat timer ticks and the client disconnects at any moment.     *)
(***************************************************************************)
ServerRequest ==
  [messages |-> <<Msg("user", <<"h", "i">>, << >>, "", << >>, "")>>,
   model |-> <<"gemini", "-2.5-flash">>, tools |-> << >>, sessionId |-> "s1",
     parameters |-> NoParameters, config |-> NoConfig]

ServerInputs ==
  { << >>,
    joinLines(<<DATA_PREFIX \o <<"{", "t", "x", ";", "}">>>>),
    joinLines(<<DATA_PREFIX \o <<"{", "H", "x", ";", "f", "F", "u", "}">>>>),
    joinLines(<<DATA_PREFIX \o <<"{", "t", "x", ";", "}">>,
                DATA_PREFIX \o <<"{", "t", "y", ";", "F", "}">>>>),
    joinLines(<<DATA_PREFIX \o <<"{", "f", "}">>>>),
    joinLines(<<DATA_PREFIX \o <<"{", "f", "}">>, DATA_PREFIX \o <<"{", "F", "}">>>>),
    joinLines(<<DATA_PREFIX \o <<"{", "f", "}">>>>) \o DATA_PREFIX \o <<"{", "F", "}">> }

ServerAnswers ==
  { [parts |-> <<UPart("text", <<"o", "k">>, "", "", << >>)>>, usageMetadata |-> NoUsage] }

ServerStatuses == {200, 403, 429, 500}

\* the chunks the upstream body arrives in end with a line or with the body
LineEnds ==
  {k \in 1..Len(req[1].upstream) :
     req[1].upstream[k] = "\n" \/ k = Len(req[1].upstream)}

\* the handler up to its first wait for the upstream: the request is
\* checked and translated, and a streaming response gets its headers and
\* its heartbeat timer
postChatCompletions(hasMessages, hasToken, stream) ==
  /\ srv.pc = "idle"
  /\ UNCHANGED <<sanVars, storeVars, streamVars>>
  /\ IF ~hasMessages
       THEN /\ res' = resJson(res, 400,
                              [message |-> "messages is required", type |-> "",
                               code |-> NoCode], 0)
            /\ srv' = [srv EXCEPT !.pc = "returned"]
            /\ UNCHANGED <<cacheVars, trVars, retryVars, heartbeatTimer>>
     ELSE IF ~hasToken
       THEN /\ res' = catchHandlerError(res, NewError("no token"), 0)
            /\ srv' = [srv EXCEPT !.pc = "failed", !.error = NewError("no token")]
            /\ UNCHANGED <<cacheVars, trVars, retryVars, heartbeatTimer>>
     ELSE /\ generateRequestBody(ServerRequest)
          /\ IF stream
               THEN /\ heartbeatTimer' = "active"
                    /\ srv' = [srv EXCEPT !.pc = "streaming", !.stream = TRUE]
                    /\ UNCHANGED <<res, retryVars>>
               ELSE /\ with429Retry(JNum(safeRetries, 1))
                    /\ srv' = [srv EXCEPT !.pc = "noStream"]
                    /\ UNCHANGED <<res, heartbeatTimer>>

UpstreamFrame == UNCHANGED <<sanVars, storeVars, trVars, retryVars, serverVars>>

\* with429Retry calls fn: generateAssistantResponse runs to its first wait
callGenerateAssistantResponse ==
  /\ srv.pc = "streaming"
  /\ generateAssistantResponse(1)
  /\ UpstreamFrame

\* the callback runs for the events the chunk just processed produced
callbackStep ==
  LET new == SubSeq(req'[1].events, Len(req[1].events) + 1, Len(req'[1].events))
      st == streamCallback(new, 1, [res |-> res, srv |-> srv], req[1].attempt)
  IN  /\ res' = st.res
      /\ srv' = st.srv
      /\ UNCHANGED <<heartbeatTimer, sanVars, storeVars, trVars, retryVars>>

\* generateAssistantResponse returned: the last chunk, the sentinel, the end
streamReturns ==
  /\ srv.pc = "streaming" /\ req[1].pc = "returned"
  /\ res' = endStream(writeStreamData(res,
                                      createStreamChunk("", IF srv.hasToolCall
                                                              THEN "tool_calls"
                                                              ELSE "stop",
                                                        srv.usageData),
                                      req[1].attempt),
                      req[1].attempt)
  /\ heartbeatTimer' = clearInterval(heartbeatTimer)
  /\ srv' = [srv EXCEPT !.pc = "done"]
  /\ UNCHANGED <<cacheVars, sanVars, storeVars, trVars, retryVars, streamVars>>

\* generateAssistantResponse threw: with429Retry calls it again, or the
\* error reaches the catch blocks of the handler
streamCatch(body) ==
  /\ srv.pc = "streaming"
  /\ catchError(1)
  /\ IF req'[1].pc = "thrown"
       THEN /\ heartbeatTimer' = clearInterval(heartbeatTimer)
            /\ res' = catchHandlerError(res, throwApiError(req[1].error, body),
                                        req[1].attempt)
            /\ srv' = [srv EXCEPT !.pc = "failed",
                                  !.error = throwApiError(req[1].error, body),
                                  !.tokenDisabled = @ \/ disablesToken(req[1].error, body)]
       ELSE /\ srv' = [srv EXCEPT !.tokenDisabled = @ \/ disablesToken(req[1].error, body)]
            /\ UNCHANGED <<res, heartbeatTimer>>
  /\ UNCHANGED <<sanVars, storeVars, trVars, retryVars>>

\* the non-streaming call resolves: the completion is sent
noStreamResolves(d) ==
  /\ srv.pc = "noStream"
  /\ fnResolves
  /\ generateAssistantResponseNoStream(d)
  /\ res' = resJson(res, res.statusCode,
                    [message |-> "", type |-> "chat.completion", code |-> NoCode],
                    attempt)
  /\ srv' = [srv EXCEPT !.pc = "done"]
  /\ UNCHANGED <<heartbeatTimer, sanVars, storeVars, streamVars>>

\* the non-streaming call throws what handleApiError made of the failure
noStreamRejects(status, body) ==
  /\ srv.pc = "noStream"
  /\ fnRejects(handleApiError(status), JUndefined)
  /\ IF rtPc' = "thrown"
       THEN /\ res' = catchHandlerError(res, throwApiError(status, body), attempt)
            /\ srv' = [srv EXCEPT !.pc = "failed",
                                  !.error = throwApiError(status, body),
                                  !.tokenDisabled = @ \/ disablesToken(status, body)]
       ELSE /\ srv' = [srv EXCEPT !.tokenDisabled = @ \/ disablesToken(status, body)]
            /\ UNCHANGED res
  /\ UNCHANGED <<heartbeatTimer, cacheVars, sanVars, storeVars, trVars, streamVars>>

Heartbeats == Cardinality({i \in 1..Len(res.writes) : res.writes[i].kind = "heartbeat"})

\* the setInterval callback of createHeartbeat
heartbeatTick ==
  /\ heartbeatTimer = "active"
  /\ Heartbeats < MaxHeartbeats
  /\ IF ~res.writableEnded
       THEN /\ res' = resWrite(res, SSE_HEARTBEAT, req[1].attempt)
            /\ UNCHANGED heartbeatTimer
       ELSE /\ heartbeatTimer' = clearInterval(heartbeatTimer)
            /\ UNCHANGED res
  /\ UNCHANGED <<srv, cacheVars, sanVars, storeVars, trVars, retryVars, streamVars>>

\* the client closes the connection while the handler waits for the
\* upstream: res emits 'close'
clientClose ==
  /\ srv.pc \in {"streaming", "noStream"}
  /\ ~res.closed
  /\ res' = [res EXCEPT !.closed = TRUE]
  /\ heartbeatTimer' = resOnClose(heartbeatTimer)
  /\ UNCHANGED <<srv, cacheVars, sanVars, storeVars, trVars, retryVars, streamVars>>

ServerInit ==
  /\ CacheInit
  /\ trPc = "idle" /\ reqIn = NoRequest /\ requestBody = NoBody
  /\ data = NoData /\ response = NoResponse
  /\ useAxios \in BOOLEAN
  /\ lineBufferPool = << >>
  /\ lineBuffers = << >>
  /\ \E input \in ServerInputs :
       req = [r \in 1..MaxRequests |->
                IF r = 1 THEN [NoReq EXCEPT !.input = input]
                ELSE [NoReq EXCEPT !.pc = "off"]]
  /\ rtPc = "idle" /\ maxRetries = JUndefined /\ attempt = 0
  /\ fnCalls = << >> /\ settled = NoOutcome
  /\ srv = [NoSrv EXCEPT !.pc = "idle"]
  /\ res = NoRes
  /\ heartbeatTimer = "none"
  /\ SanitizeIdle
  /\ StoreIdle

\* the upstream delivers the next chunk of the body and the callback runs
ServerData ==
  \/ \E k \in LineEnds : srv.pc = "streaming" /\ axiosData(1, k) /\ callbackStep
  \/ \E k \in LineEnds : srv.pc = "streaming" /\ onData(1, k) /\ callbackStep

\* a chunk of the body is still to be delivered
DataPending ==
  /\ srv.pc = "streaming" /\ req[1].pc = "streaming"
  /\ LineEnds # {}

\* the other steps of the handler after its entry, of the upstream and of
\* the timer
ServerProgram ==
  \/ callGenerateAssistantResponse
  \/ srv.pc = "streaming" /\ axiosResolves(1) /\ UpstreamFrame
  \/ \E status \in {403, 429, 500, 0} :
       srv.pc = "streaming" /\ axiosRejects(1, status) /\ UpstreamFrame
  \/ srv.pc = "streaming" /\ axiosEnd(1) /\ UpstreamFrame
  \/ srv.pc = "streaming" /\ axiosError(1) /\ UpstreamFrame
  \/ \E status \in ServerStatuses :
       srv.pc = "streaming" /\ onStart(1, status) /\ UpstreamFrame
  \/ srv.pc = "streaming" /\ onEnd(1) /\ UpstreamFrame
  \/ srv.pc = "streaming" /\ onError(1) /\ UpstreamFrame
  \/ \E body \in ErrorBodies : streamCatch(body)
  \/ streamReturns
  \/ \E d \in ServerAnswers : noStreamResolves(d)
  \/ \E status \in {403, 429, 500, 0}, body \in ErrorBodies : noStreamRejects(status, body)
  \/ heartbeatTick

ServerNext ==
  \/ \E hasMessages, hasToken, stream \in BOOLEAN :
       postChatCompletions(hasMessages, hasToken, stream)
  \/ ServerData
  \/ ServerProgram
  \/ clientClose

\* once the handler is entered, the server, the upstream and the timer keep
\* taking their steps (weak fairness, written out for the delivery of the
\* body, which is enabled exactly when DataPending); nothing makes the client
\* close the connection
ServerSpec ==
  /\ ServerInit /\ [][ServerNext]_vars
  /\ WF_vars(ServerProgram)
  /\ ([]<>(~DataPending) \/ []<><<ServerData>>_vars)

ChunkWrites == SelectSeq(res.writes, LAMBDA w : w.kind = "chunk")

\* the delta of the chunk the callback writes for an event, "" for none
DeltaOf(ev) ==
  CASE ev.type = "usage" -> ""
    [] ev.type = "reasoning" -> "reasoning_content"
    [] ev.type = "tool_calls" -> "tool_calls"
    [] OTHER -> "content"

\* the deltas of the chunks of a response whose body is bytes
RECURSIVE DeltasOf(_)
DeltasOf(events) ==
  IF events = << >> THEN << >>
  ELSE (IF DeltaOf(events[1]) = "" THEN << >> ELSE <<DeltaOf(events[1])>>)
       \o DeltasOf(Tail(events))

\* C12: a rate-limit failure that is retried leaves no trace in what a
\* streaming client is sent: every data chunk written was produced by the
\* attempt under way, and after a successful end the chunks are those of
\* the response of the last attempt, each once, followed by the final chunk.
RetriedFailureWritesNoChunk ==
  /\ \A i \in 1..Len(ChunkWrites) : ChunkWrites[i].attempt = req[1].attempt
  /\ (srv.pc = "done" /\ srv.stream) =>
       [i \in 1..Len(ChunkWrites) |-> ChunkWrites[i].delta]
         = DeltasOf(oneChunkEvents(req[1].input)) \o <<"">>

\* a stream completed at the second attempt, after a 429, with two content
\* chunks
StreamedAfterRetry ==
  /\ srv.pc = "done" /\ srv.stream
  /\ req[1].attempt = 1
  /\ Len(ChunkWrites) = 3

\* the handler of a streaming request has left through its catch blocks
\* after a heartbeat or a data chunk was written
FailedAfterFirstByte ==
  /\ srv.pc = "failed" /\ srv.stream
  /\ \E i \in 1..Len(res.writes) : res.writes[i].kind \in {"heartbeat", "chunk"}

\* after such a failure the timer is not running and no JSON body was sent
FailureAfterFirstByteIsSilent ==
  FailedAfterFirstByte =>
    /\ heartbeatTimer # "active"
    /\ \A i \in 1..Len(res.writes) : res.writes[i].kind # "json"

\* C13: when the upstream call of a streaming request fails after a
\* heartbeat or a data chunk has been written, the heartbeat is stopped, no
\* JSON error body is written, and the connection to the client is
\* eventually ended.
FailureAfterFirstByteEndsConnection ==
  /\ [](FailureAfterFirstByteIsSilent)
  /\ (FailedAfterFirstByte ~> (res.writableEnded \/ res.closed))

\* the handler has returned from a failed stream with the response still open
FailedStreamLeftOpen ==
  /\ FailedAfterFirstByte
  /\ ~res.writableEnded /\ ~res.closed
  /\ heartbeatTimer = "cleared"

\* the status of the error that reached the catch block of the handler:
\* that of the upstream answer, none for a transport error or a missing token
FailureStatus ==
  IF srv.stream /\ req[1].pc = "thrown" THEN req[1].error
  ELSE IF rtPc = "thrown" /\ settled.status.kind = "number" THEN settled.status.num
  ELSE 0

SseWrites ==
  SelectSeq(res.writes,
            LAMBDA w : w.kind \in {"heartbeat", "prefix", "chunk", "suffix", "done"})

\* C14: when the call fails before anything was written to the client, the
\* client is sent exactly one HTTP error response, with the status of the
\* error, or 500 when the error has none, and a body of the shape
\* {error: {message, type, code}}; no SSE byte is written for the request.
FailureBeforeFirstByteIsOneErrorResponse ==
  (srv.pc = "failed" /\ ~FailedAfterFirstByte) =>
    /\ Len(res.writes) = 1
    /\ SseWrites = << >>
    /\ res.writes[1].kind = "json"
    /\ res.writes[1].status = (IF FailureStatus = 0 THEN 500 ELSE FailureStatus)
    /\ res.statusCode = res.writes[1].status
    /\ res.writes[1].payload.message # ""
    /\ res.writes[1].payload.type # ""
    /\ res.writes[1].payload.code # NoCode
    /\ res.writableEnded

\* a streaming request answered 429 until the budget was used up, with no
\* heartbeat in between: the 429 is passed on with the code of the upstream body
RateLimitPassedOn ==
  /\ srv.pc = "failed" /\ srv.stream
  /\ req[1].attempt > 0
  /\ Len(res.writes) = 1
  /\ res.writes[1].status = 429
  /\ res.writes[1].payload.code = 8

\* the response has been ended by the server or closed by the client
ResponseOver == res.writableEnded \/ res.closed

HeartbeatThenSuccess ==
  /\ srv.pc = "done" /\ srv.stream
  /\ heartbeatTimer = "cleared"
  /\ Heartbeats > 0

HeartbeatThenClose ==
  /\ srv.pc = "streaming" /\ res.closed
  /\ heartbeatTimer = "cleared"
  /\ Heartbeats > 0
  /\ req[1].upstream # << >>

\* the line buffer of the upstream call is back in the pool
ParserBufferReleased ==
  \E i \in 1..Len(lineBufferPool) : lineBufferPool[i] = req[1].lineBuffer

\* the client has left a streaming request
ClientGone == srv.stream /\ res.closed

\* once the client has left, the timer is not running
ClientGoneReleasesTimer == ClientGone => heartbeatTimer # "active"

\* once the client has left, the line buffer gets back to the pool when the
\* upstream call comes to its end
ClientGoneReleasesBuffer == ClientGone ~> ParserBufferReleased

\* C16: after the client has disconnected in the middle of a stream no
\* further data chunk is written to its connection, and the heartbeat timer
\* and the parser buffer of the request are released.
ClientGoneStopsStream ==
  /\ [](\A i \in 1..Len(res.writes) :
          res.writes[i].kind = "chunk" => ~res.writes[i].closed)
  /\ [](ClientGoneReleasesTimer)
  /\ ClientGoneReleasesBuffer

\* a data chunk of the upstream written after the client had left
ChunkWrittenAfterClose ==
  \E i \in 1..Len(res.writes) :
    /\ res.writes[i].kind = "chunk" /\ res.writes[i].closed
    /\ res.writes[i].delta = "content"

\* the writes without the prefixes and suffixes of the data frames
Payloaded == SelectSeq(res.writes, LAMBDA w : w.kind \notin {"prefix", "suffix"})

\* C17: when a streaming request completes, what was written to the client
\* ends with one chunk carrying a finish_reason and then the [DONE]
\* sentinel, written exactly once, and the response is ended; no data chunk
\* and no heartbeat is ever written after the sentinel.
StreamEndsWithSentinel ==
  /\ (srv.pc = "done" /\ srv.stream) =>
       LET n == Len(Payloaded) IN
       /\ n >= 2
       /\ res.writes[Len(res.writes)].kind = "done"
       /\ Payloaded[n].kind = "done"
       /\ Payloaded[n - 1].kind = "chunk"
       /\ Payloaded[n - 1].finish_reason \in {"stop", "tool_calls"}
       /\ \A i \in 1..(n - 2) : Payloaded[i].finish_reason = ""
       /\ res.writableEnded
  /\ \A i \in 1..Len(res.writes) :
       res.writes[i].kind = "done" => (i = Len(res.writes) /\ res.writableEnded)

\* a stream with a heartbeat, a tool call and the usage, completed
ToolCallStreamCompleted ==
  /\ srv.pc = "done" /\ srv.stream
  /\ Heartbeats > 0
  /\ Payloaded[Len(Payloaded) - 1].finish_reason = "tool_calls"
  /\ Payloaded[Len(Payloaded) - 1].usage

(***************************************************************************)
(* The translator on conversations of tool calls and tool results: at most *)
(* MaxTurnMsgs messages, among them two calls with the same id and         *)
(* different names and a result whose id no call has, for a thinking and   *)
(* a non-thinking model, from empty stores.                                *)
(***************************************************************************)
MaxTurnMsgs == 4

TurnMessages ==
  { Msg("user", <<"h", "i">>, << >>, "", << >>, ""),
    Msg("assistant", <<"o", "k">>, << >>, "", << >>, ""),
    Msg("assistant", << >>, << >>, "", <<TC("c1", <<"a", " ", "a">>, "")>>, ""),
    Msg("assistant", << >>, << >>, "", <<TC("c1", <<"b">>, "")>>, ""),
    Msg("assistant", <<"o", "k">>, << >>, "", <<TC("c2", <<"c">>, "")>>, ""),
    Msg("tool", <<"o", "u", "t">>, << >>, "", << >>, "c1"),
    Msg("tool", <<"o", "u", "t">>, << >>, "", << >>, "c9") }

TurnModels == {<<"claude", "-opus-4-5">>, <<"claude", "-sonnet-4-5", "-thinking">>}

TurnRequests ==
  { [messages |-> ms, model |-> m, tools |-> << >>, sessionId |-> "s1",
     parameters |-> NoParameters, config |-> NoConfig] :
      ms \in SeqsUpTo(TurnMessages, MaxTurnMsgs), m \in TurnModels }

TurnInit ==
  /\ CacheInit
  /\ trPc = "idle"
  /\ reqIn = NoRequest
  /\ requestBody = NoBody
  /\ data = NoData
  /\ response = NoResponse
  /\ SanitizeIdle /\ StoreIdle /\ RetryIdle /\ StreamIdle /\ ServerIdle

TurnNext == \E rq \in TurnRequests : generateRequestBody(rq) /\ TranslateFrame

TurnSpec == TurnInit /\ [][TurnNext]_vars

\* the turn of the translated contents that holds the parts of message m
TurnOf(m) ==
  CHOOSE t \in 1..Len(requestBody.contents) :
    \E i \in 1..Len(requestBody.contents[t].parts) :
      requestBody.contents[t].parts[i].msg = m

\* the last turn as message m found it: the turn of the message before, with
\* the parts it had by then
PrecedingParts(m) ==
  SelectSeq(requestBody.contents[TurnOf(m - 1)].parts, LAMBDA part : part.msg < m)

\* the parts of message m went to the turn of the message before
JoinedPrecedingTurn(m) == m > 1 /\ TurnOf(m) = TurnOf(m - 1)

ToolCallsOnly(message) ==
  /\ message.role = "assistant"
  /\ Len(message.tool_calls) > 0
  /\ trim(message.content) = << >>

\* a part carrying text of a message: the thought and the signature
\* placeholders of a thinking model are not counted
CarriesText(part) ==
  part.kind = "text" /\ ~part.thought /\ part.thoughtSignature = ""

\* message m found a model turn holding tool calls and no text
PrecededByPureToolCallTurn(m) ==
  /\ m > 1
  /\ requestBody.contents[TurnOf(m - 1)].role = "model"
  /\ \A i \in 1..Len(PrecedingParts(m)) : ~CarriesText(PrecedingParts(m)[i])
  /\ \E i \in 1..Len(PrecedingParts(m)) : PrecedingParts(m)[i].kind = "functionCall"

\* C18: the tool-call parts of a tool-calls-only assistant message are
\* appended to the preceding turn exactly when that turn is a model turn
\* holding tool calls only, no text; after a user turn or a model turn
\* with text the message starts a new model turn.
ToolCallsJoinOnlyPureToolCallTurn ==
  trPc = "translated" =>
    \A m \in 1..Len(reqIn.messages) :
      ToolCallsOnly(reqIn.messages[m]) =>
        (JoinedPrecedingTurn(m) <=> PrecededByPureToolCallTurn(m))

\* the same for the turns that follow a user turn or a pure tool-call turn
ToolCallsJoinPureToolCallTurn ==
  trPc = "translated" =>
    \A m \in 1..Len(reqIn.messages) :
      (/\ ToolCallsOnly(reqIn.messages[m])
       /\ m > 1 =>
            \/ requestBody.contents[TurnOf(m - 1)].role = "user"
            \/ PrecededByPureToolCallTurn(m))
        => (JoinedPrecedingTurn(m) <=> PrecededByPureToolCallTurn(m))

\* tool calls appended to the turn of an assistant message that is text only
ToolCallsJoinedTextTurn ==
  /\ trPc = "translated"
  /\ \E m \in 2..Len(reqIn.messages) :
       /\ ToolCallsOnly(reqIn.messages[m])
       /\ reqIn.messages[m - 1].role = "assistant"
       /\ reqIn.messages[m - 1].tool_calls = << >>
       /\ JoinedPrecedingTurn(m)

\* tool calls appended to a turn of tool calls, by a non-thinking model
ToolCallsJoinedToolCallTurn ==
  /\ trPc = "translated" /\ ~requestBody.enableThinking
  /\ \E m \in 2..Len(reqIn.messages) :
       /\ ToolCallsOnly(reqIn.messages[m])
       /\ PrecededByPureToolCallTurn(m)
       /\ JoinedPrecedingTurn(m)

\* the functionResponse parts made for message m, in the order of the contents
ResponsesOf(m) == SelectSeq(requestBody.contents[TurnOf(m)].parts, LAMBDA part : part.msg = m)

\* the positions <<turn, part>> of the functionCall parts with this id that
\* the messages before m produced, in model turns
CallsBefore(m, id) ==
  { pos \in (1..Len(requestBody.contents)) \X (1..(2 * MaxTurnMsgs + 2)) :
      /\ requestBody.contents[pos[1]].role = "model"
      /\ pos[2] <= Len(requestBody.contents[pos[1]].parts)
      /\ LET part == requestBody.contents[pos[1]].parts[pos[2]] IN
         /\ part.kind = "functionCall" /\ part.id = id /\ part.msg < m }

\* the call a result refers to: in the latest turn that holds one, the first
OriginatingCall(m, id) ==
  CHOOSE pos \in CallsBefore(m, id) :
    \A other \in CallsBefore(m, id) :
      \/ other[1] < pos[1]
      \/ other[1] = pos[1] /\ pos[2] <= other[2]

\* C19: every tool-result message yields one functionResponse whose id is
\* the message's tool_call_id and whose name is the name of the functionCall
\* with that id met first when the earlier model turns are scanned from the
\* latest backwards; when no earlier functionCall has the id the name is the
\* empty string, and the translation completes all the same.
FunctionResponseNamesOriginatingCall ==
  trPc = "translated" =>
    \A m \in 1..Len(reqIn.messages) :
      reqIn.messages[m].role = "tool" =>
        LET id == reqIn.messages[m].tool_call_id
            made == ResponsesOf(m)
        IN  /\ Len(made) = 1
            /\ made[1].kind = "functionResponse"
            /\ made[1].id = id
            /\ made[1].name =
                 IF CallsBefore(m, id) = {} THEN << >>
                 ELSE LET pos == OriginatingCall(m, id)
                      IN  requestBody.contents[pos[1]].parts[pos[2]].name

\* a result named after the later of two calls with its id, which sit in
\* different turns under different names, next to a result without a call
LaterCallNamesResult ==
  /\ trPc = "translated"
  /\ \E m \in 1..Len(reqIn.messages) :
       /\ reqIn.messages[m].role = "tool"
       /\ ResponsesOf(m)[1].name = <<"b">>
       /\ \E pos \in CallsBefore(m, "c1") :
            /\ pos[1] < OriginatingCall(m, "c1")[1]
            /\ requestBody.contents[pos[1]].parts[pos[2]].name = <<"a", "_", "a">>

\* a result whose id no call has, translated with an empty name
ResultWithoutCall ==
  /\ trPc = "translated"
  /\ \E m \in 2..Len(reqIn.messages) :
       /\ reqIn.messages[m].role = "tool"
       /\ reqIn.messages[m].tool_call_id = "c9"
       /\ reqIn.messages[m - 1].role = "assistant"
       /\ ResponsesOf(m)[1].name = << >>

\* message m found a user turn holding a functionResponse
PrecededByToolResultTurn(m) ==
  /\ m > 1
  /\ requestBody.contents[TurnOf(m - 1)].role = "user"
  /\ \E i \in 1..Len(PrecedingParts(m)) : PrecedingParts(m)[i].kind = "functionResponse"

\* C20: a tool-result message is appended to the preceding turn exactly
\* when that turn is a user turn holding a functionResponse part, and opens
\* a new user turn otherwise; a run of consecutive tool-result messages thus
\* gives one user turn with their functionResponse parts in message order.
ToolResultsShareOneUserTurn ==
  trPc = "translated" =>
    /\ \A m \in 1..Len(reqIn.messages) :
         reqIn.messages[m].role = "tool" =>
           /\ requestBody.contents[TurnOf(m)].role = "user"
           /\ JoinedPrecedingTurn(m) <=> PrecededByToolResultTurn(m)
           /\ ~JoinedPrecedingTurn(m) =>
                requestBody.contents[TurnOf(m)].parts[1].msg = m
    /\ \A m \in 2..Len(reqIn.messages) :
         (reqIn.messages[m].role = "tool" /\ reqIn.messages[m - 1].role = "tool") =>
           /\ TurnOf(m) = TurnOf(m - 1)
           /\ \E i \in 2..Len(requestBody.contents[TurnOf(m)].parts) :
                /\ requestBody.contents[TurnOf(m)].parts[i].msg = m
                /\ requestBody.contents[TurnOf(m)].parts[i - 1].msg = m - 1

\* three results in a row, after a model turn, in one user turn of three parts
ThreeResultsOneTurn ==
  /\ trPc = "translated"
  /\ Len(reqIn.messages) = 4
  /\ reqIn.messages[1].role = "assistant"
  /\ \A m \in 2..4 : reqIn.messages[m].role = "tool"
  /\ Len(requestBody.contents) = 2
  /\ [i \in 1..3 |-> requestBody.contents[2].parts[i].msg] = <<2, 3, 4>>

\* a result after a user message, in a user turn of its own
ResultAfterUserMessage ==
  /\ trPc = "translated"
  /\ \E m \in 2..Len(reqIn.messages) :
       /\ reqIn.messages[m].role = "tool"
       /\ reqIn.messages[m - 1].role = "user"
       /\ ~JoinedPrecedingTurn(m)

(***************************************************************************)
(* The translator on the system messages and on the model id: message      *)
(* lists of at most MaxBodyMsgs messages with system messages, empty and   *)
(* blank ones among them, at the head and further down, under an empty, a  *)
(* blank and a padded base instruction; and one conversation for every     *)
(* model id the rules and the model table name, under the thinking         *)
(* parameters a request can carry.                                         *)
(***************************************************************************)
MaxBodyMsgs == 3

BodyMessages ==
  { Msg("system", <<" ", "s", " ">>, << >>, "", << >>, ""),
    Msg("system", <<"t">>, << >>, "", << >>, ""),
    Msg("system", << >>, << >>, "", << >>, ""),
    Msg("system", <<" ", "\n">>, << >>, "", << >>, ""),
    Msg("user", <<"h", "i">>, << >>, "", << >>, ""),
    Msg("assistant", <<"o", "k">>, << >>, "", << >>, "") }

BodyConfigs ==
  { [systemInstruction |-> << >>],
    [systemInstruction |-> <<" ">>],
    [systemInstruction |-> <<" ", "b", "\n">>] }

BodyModels ==
  { <<"claude", "-sonnet-4-5", "-thinking">>,
    <<"claude", "-sonnet-4-5">>,
    <<"claude", "-opus-4-5">>,
    <<"claude", "-opus-4-5", "-thinking">>,
    <<"gemini", "-2.5-flash", "-thinking">>,
    <<"gemini", "-2.5-flash">>,
    <<"gemini", "-2.5-pro">>,
    <<"gemini", "-3-pro-", "high">>,
    <<"gemini", "-3-pro">>,
    <<"gemini", "-2.0-flash", "-thinking", "-exp">>,
    <<"rev19-uic3-1p">>,
    <<"gpt-oss-120b-medium">>,
    <<"gpt-oss-120b">> }

BodyParameters ==
  { NoParameters,
    [NoParameters EXCEPT !.thinking_budget = [defined |-> TRUE, value |-> 0]],
    [NoParameters EXCEPT !.thinking_budget = [defined |-> TRUE, value |-> 2048]],
    [NoParameters EXCEPT !.reasoning_effort = "high"],
    [NoParameters EXCEPT !.reasoning_effort = "max"],
    [NoParameters EXCEPT !.reasoning_effort = "low"],
    [NoParameters EXCEPT !.reasoning_effort = "medium"],
    [NoParameters EXCEPT !.reasoning_effort = "constructor"],
    [thinking_budget |-> [defined |-> TRUE, value |-> 0], reasoning_effort |-> "high"] }

BodyRequests ==
  { [messages |-> ms, model |-> <<"gemini", "-2.5-flash">>, tools |-> << >>,
     sessionId |-> "s1", parameters |-> NoParameters, config |-> c] :
      ms \in SeqsUpTo(BodyMessages, MaxBodyMsgs), c \in BodyConfigs }
  \cup
  { [messages |-> <<Msg("user", <<"h", "i">>, << >>, "", << >>, "")>>, model |-> m,
     tools |-> << >>, sessionId |-> "s1", parameters |-> ps, config |-> NoConfig] :
      m \in BodyModels, ps \in BodyParameters }

BodyInit ==
  /\ CacheInit
  /\ trPc = "idle"
  /\ reqIn = NoRequest
  /\ requestBody = NoBody
  /\ data = NoData
  /\ response = NoResponse
  /\ SanitizeIdle /\ StoreIdle /\ RetryIdle /\ StreamIdle /\ ServerIdle

BodyNext == \E rq \in BodyRequests : generateRequestBody(rq) /\ TranslateFrame

BodySpec == BodyInit /\ [][BodyNext]_vars

\* the messages up to the first one that is not a system message
LeadingSystemMessages ==
  {m \in 1..Len(reqIn.messages) : \A k \in 1..m : reqIn.messages[k].role = "system"}

\* the trimmed texts of the leading system messages that are not blank, in order
LeadingTexts ==
  LET kept == {m \in LeadingSystemMessages : trim(reqIn.messages[m].content) # << >>}
      nth[k \in 1..Cardinality(kept)] ==
        CHOOSE m \in kept : Cardinality({x \in kept : x <= m}) = k
  IN  [k \in 1..Cardinality(kept) |-> trim(reqIn.messages[nth[k]].content)]

\* the messages of which the contents hold a part
TranslatedMessages ==
  UNION {{requestBody.contents[t].parts[i].msg :
            i \in 1..Len(requestBody.contents[t].parts)} :
         t \in 1..Len(requestBody.contents)}

\* message m is a user turn of its own, holding its text
IsUserTurn(m) ==
  \E t \in 1..Len(requestBody.contents) :
    /\ requestBody.contents[t].role = "user"
    /\ Len(requestBody.contents[t].parts) = 1
    /\ requestBody.contents[t].parts[1].msg = m
    /\ requestBody.contents[t].parts[1].kind = "text"
    /\ requestBody.contents[t].parts[1].text = reqIn.messages[m].content

\* C21: the system instruction is the trimmed base instruction joined with
\* the trimmed non-blank texts of the leading system messages; no leading
\* system message, blank or not, is a user turn; every system message after
\* the first other message is a user turn and not in the instruction; and
\* the systemInstruction field is present only when the instruction is not
\* empty.
SystemInstructionFromLeadingSystemMessages ==
  trPc = "translated" =>
    /\ requestBody.systemInstruction.text =
         join((IF trim(reqIn.config.systemInstruction) # << >>
                 THEN <<trim(reqIn.config.systemInstruction)>> ELSE << >>)
              \o LeadingTexts, ParagraphBreak)
    /\ requestBody.systemInstruction.present <=> requestBody.systemInstruction.text # << >>
    /\ \A m \in LeadingSystemMessages : m \notin TranslatedMessages
    /\ \A m \in 1..Len(reqIn.messages) :
         (reqIn.messages[m].role = "system" /\ m \notin LeadingSystemMessages)
           => IsUserTurn(m)

\* a padded base instruction, a padded leading system message and a system
\* message after the user message
LateSystemMessageIsUserTurn ==
  /\ trPc = "translated"
  /\ Len(reqIn.messages) = 3
  /\ reqIn.messages[1].content = <<" ", "s", " ">>
  /\ reqIn.messages[2].role = "user"
  /\ reqIn.messages[3].content = <<"t">>
  /\ requestBody.systemInstruction.present
  /\ requestBody.systemInstruction.text = <<"b", "\n", "\n", "s">>
  /\ Len(requestBody.contents) = 2

\* only blank system messages under a blank base: no systemInstruction field
NoSystemInstructionField ==
  /\ trPc = "translated"
  /\ Len(reqIn.messages) = 2
  /\ LeadingSystemMessages = {1, 2}
  /\ reqIn.config.systemInstruction = <<" ">>
  /\ ~requestBody.systemInstruction.present
  /\ requestBody.contents = << >>

\* thinking is switched off in the generation config
ThinkingDisabled ==
  /\ requestBody.generationConfig.thinkingConfig.thinkingBudget = 0
  /\ ~requestBody.generationConfig.thinkingConfig.includeThoughts

\* C22: the generation config has thinkingBudget 0 and includeThoughts
\* false exactly when the resolved model is not thinking-enabled by the
\* rule set, for every requested model id, the remapped aliases included.
ThinkingDisabledIffResolvedModelNotThinking ==
  trPc = "translated" =>
    (ThinkingDisabled <=> ~isEnableThinking(requestBody.model))

\* C22, amended: the generation config has thinkingBudget 0 and
\* includeThoughts false exactly when the requested model id, before the
\* model table remaps it, is not thinking-enabled by the rule set.
ThinkingDisabledIffRequestedModelNotThinking ==
  trPc = "translated" =>
    (ThinkingDisabled <=> ~isEnableThinking(reqIn.model))

\* claude-opus-4-5 is sent as claude-opus-4-5-thinking with thinking off
AliasResolvedToThinkingModel ==
  /\ trPc = "translated"
  /\ reqIn.model = <<"claude", "-opus-4-5">>
  /\ requestBody.model = <<"claude", "-opus-4-5", "-thinking">>
  /\ ThinkingDisabled

\* claude-sonnet-4-5-thinking is sent as claude-sonnet-4-5 with thinking on
ThinkingAliasResolvedToPlainModel ==
  /\ trPc = "translated"
  /\ reqIn.model = <<"claude", "-sonnet-4-5", "-thinking">>
  /\ requestBody.model = <<"claude", "-sonnet-4-5">>
  /\ requestBody.generationConfig.thinkingConfig.includeThoughts
  /\ requestBody.generationConfig.thinkingConfig.thinkingBudget = 32000

\* the upstream call has failed and its error has reached the handler
UpstreamFailed == srv.pc = "failed" /\ srv.error.isUpstreamApiError

\* C23: an upstream failure with status 403 disables the current credential
\* exactly when its body does not hold the context-length phrasing; a 403
\* with that phrasing and a failure with any other status leave it enabled;
\* in every case an error with the status and the raw body reaches the caller.
ForbiddenDisablesCredentialUnlessContextLength ==
  /\ srv.tokenDisabled => UpstreamFailed
  /\ UpstreamFailed =>
       /\ srv.tokenDisabled <=> (FailureStatus = 403 /\ ~srv.error.rawBody.callerDoesNot)
       /\ srv.error.status = (IF FailureStatus = 0
                                THEN JStr(<<"U", "n", "k", "n", "o", "w", "n">>)
                                ELSE JNum(FailureStatus, 1))
       /\ srv.error.rawBody \in ErrorBodies
  /\ (UpstreamFailed /\ ~FailedAfterFirstByte /\ srv.error.rawBody.code # NoCode) =>
       res.writes[1].payload.code = srv.error.rawBody.code

\* a 403 without the phrasing on a streaming request: the credential is
\* disabled and the client is answered 403
ForbiddenDisabledCredential ==
  /\ UpstreamFailed /\ srv.stream
  /\ FailureStatus = 403
  /\ srv.tokenDisabled
  /\ res.writes[1].status = 403

\* a 403 with the phrasing: the credential stays enabled
ContextLengthKeptCredential ==
  /\ UpstreamFailed
  /\ FailureStatus = 403
  /\ srv.error.rawBody.callerDoesNot
  /\ ~srv.tokenDisabled

(***************************************************************************)
(* The aggregator on complete upstream bodies of at most MaxParts parts:   *)
(* thought parts with two different signatures and with none, text parts,  *)
(* function calls with two different signatures and with none, an inline   *)
(* image; with and without usage counters; for a request with a session    *)
(* and a model, one without a session and one without a model.             *)
(***************************************************************************)
MaxParts == 3

AggregateParts ==
  { UPart("thought", <<"r">>, "sigA", "", << >>),
    UPart("thought", <<"q">>, "sigB", "", << >>),
    UPart("thought", <<"p">>, "", "", << >>),
    UPart("text", <<"a">>, "", "", << >>),
    UPart("text", <<"b">>, "", "", << >>),
    UPart("functionCall", << >>, "", "c1", <<"f">>),
    UPart("functionCall", << >>, "sigT", "c2", <<"g">>),
    UPart("functionCall", << >>, "sigU", "c3", <<"h">>),
    UPart("inlineData", <<"i">>, "", "", << >>) }

AggregateUsages ==
  { NoUsage,
    [present |-> TRUE, promptTokenCount |-> 1, candidatesTokenCount |-> 2,
     totalTokenCount |-> 3] }

AggregateBodies ==
  { [parts |-> ps, usageMetadata |-> u] :
      ps \in SeqsUpTo(AggregateParts, MaxParts), u \in AggregateUsages }

AggregateRequests ==
  { [ServerRequest EXCEPT !.sessionId = sid, !.model = m] :
      sid \in {"s1", ""}, m \in {<<"gemini", "-2.5-flash">>, << >>} }

AggregateInit ==
  /\ CacheInit
  /\ trPc = "idle"
  /\ reqIn = NoRequest
  /\ requestBody = NoBody
  /\ data = NoData
  /\ response = NoResponse
  /\ SanitizeIdle /\ StoreIdle /\ RetryIdle /\ StreamIdle /\ ServerIdle

AggregateNext ==
  \/ \E rq \in AggregateRequests : generateRequestBody(rq) /\ TranslateFrame
  \/ \E d \in AggregateBodies : generateAssistantResponseNoStream(d) /\ TranslateFrame

AggregateSpec == AggregateInit /\ [][AggregateNext]_vars

\* the texts of the parts of the body of one kind, concatenated in order
RECURSIVE TextsOf(_, _)
TextsOf(parts, kind) ==
  IF parts = << >> THEN << >>
  ELSE (IF parts[1].kind = kind THEN parts[1].text ELSE << >>)
       \o TextsOf(Tail(parts), kind)

FunctionCallParts == SelectSeq(data.parts, LAMBDA part : part.kind = "functionCall")

ImageParts == SelectSeq(data.parts, LAMBDA part : part.kind = "inlineData")

HasImage == ImageParts # << >>

\* what the result holds besides its content
AggregatedFields ==
  /\ response.reasoningContent =
       (IF TextsOf(data.parts, "thought") = << >> THEN Null
        ELSE Str(TextsOf(data.parts, "thought")))
  /\ (\A i \in 1..Len(data.parts) :
        data.parts[i].kind = "thought" => data.parts[i].thoughtSignature = "")
       => response.reasoningSignature = ""
  /\ Len(response.toolCalls) = Len(FunctionCallParts)
  /\ \A i \in 1..Len(FunctionCallParts) :
       /\ response.toolCalls[i].id = FunctionCallParts[i].id
       /\ response.toolCalls[i].name = FunctionCallParts[i].name
       /\ response.toolCalls[i].thoughtSignature = FunctionCallParts[i].thoughtSignature
  /\ response.usage.present <=> data.usageMetadata.present
  /\ response.usage = data.usageMetadata

\* C24: for any complete upstream body the aggregator returns content equal
\* to the concatenation of its plain text parts in order, reasoningContent
\* equal to the concatenation of its thought parts or null when that is
\* empty, reasoningSignature null when no thought part carries one,
\* toolCalls in part order (empty when none) and usage null when the body
\* has no usage counters.
AggregatedResultOfAnyBody ==
  trPc = "responded" =>
    /\ response.content = TextsOf(data.parts, "text")
    /\ AggregatedFields

\* C24, amended: the same for a body without an inline image; for a body
\* with inline images the content is the concatenated text, followed by a
\* blank line when there is text, and one markdown image link per image,
\* and the other fields are as stated.
AggregatedResultOfBody ==
  trPc = "responded" =>
    /\ ~HasImage => response.content = TextsOf(data.parts, "text")
    /\ HasImage =>
         response.content =
           join((IF TextsOf(data.parts, "text") # << >>
                   THEN <<TextsOf(data.parts, "text")>> ELSE << >>)
                \o [i \in 1..Len(ImageParts) |->
                      <<"!", "[", "]", "(">> \o saveBase64Image(ImageParts[i].text)
                        \o <<")">>],
                ParagraphBreak)
    /\ AggregatedFields

\* two texts with a function call in between, and no usage
TextAroundToolCallAggregated ==
  /\ trPc = "responded"
  /\ Len(data.parts) = 3
  /\ data.parts[1].kind = "text" /\ data.parts[2].kind = "functionCall"
  /\ data.parts[3].kind = "text" /\ data.parts[1].text # data.parts[3].text
  /\ response.content = data.parts[1].text \o data.parts[3].text
  /\ response.reasoningContent = Null
  /\ Len(response.toolCalls) = 1
  /\ ~response.usage.present

\* a body of a text and an image
ImageLinkInContent ==
  /\ trPc = "responded"
  /\ Len(data.parts) = 2
  /\ data.parts[1].kind = "text" /\ data.parts[2].kind = "inlineData"
  /\ Len(response.content) > Len(data.parts[1].text)

\* the signatures of the thought parts of the body, in part order
ThoughtSignatures ==
  LET signed == SelectSeq(data.parts,
                          LAMBDA part : part.kind = "thought" /\ part.thoughtSignature # "")
  IN  [i \in 1..Len(signed) |-> signed[i].thoughtSignature]

\* the signatures of the function-call parts of the body, in part order
ToolCallSignatures ==
  LET signed == SelectSeq(data.parts,
                          LAMBDA part : part.kind = "functionCall"
                                        /\ part.thoughtSignature # "")
  IN  [i \in 1..Len(signed) |-> signed[i].thoughtSignature]

SeveralThoughtSignatures ==
  \E i, j \in 1..Len(ThoughtSignatures) : ThoughtSignatures[i] # ThoughtSignatures[j]

SessionAndModelKnown == requestBody.sessionId # "" /\ requestBody.model # << >>

AggregatedKey == makeSigKey(requestBody.sessionId, requestBody.model)

\* the tool-signature entry holds the signature of the first tool call that
\* carries one
ToolSignatureOfFirstSignedCall ==
  (trPc = "responded" /\ SessionAndModelKnown /\ ToolCallSignatures # << >>) =>
    /\ MapHas(toolSignatureCache, AggregatedKey)
    /\ MapGet(toolSignatureCache, AggregatedKey).val = ToolCallSignatures[1]

\* nothing is written when the session or the model is unknown
UnknownSessionOrModelWritesNothing ==
  (trPc = "responded" /\ ~SessionAndModelKnown) =>
    reasoningSignatureCache = << >> /\ toolSignatureCache = << >>

\* C25: after the aggregator processed a body whose thought parts carry
\* several different signatures, the reasoning-signature entry of (session,
\* model) holds the most recent of them and the tool-signature entry the
\* signature of the first tool call that carries one; nothing is written
\* when the session or the model is unknown.
ReasoningEntryHoldsMostRecentSignature ==
  /\ (trPc = "responded" /\ SessionAndModelKnown /\ SeveralThoughtSignatures) =>
       /\ MapHas(reasoningSignatureCache, AggregatedKey)
       /\ MapGet(reasoningSignatureCache, AggregatedKey).val
            = ThoughtSignatures[Len(ThoughtSignatures)]
  /\ ToolSignatureOfFirstSignedCall
  /\ UnknownSessionOrModelWritesNothing

\* what the aggregator stores: the first signature of the thought parts
ReasoningEntryHoldsFirstSignature ==
  (trPc = "responded" /\ SessionAndModelKnown /\ ThoughtSignatures # << >>) =>
    /\ MapHas(reasoningSignatureCache, AggregatedKey)
    /\ MapGet(reasoningSignatureCache, AggregatedKey).val = ThoughtSignatures[1]

\* two thought parts with different signatures were aggregated and the
\* entry holds the earlier one
EarlierSignatureStored ==
  /\ trPc = "responded" /\ SessionAndModelKnown /\ SeveralThoughtSignatures
  /\ MapHas(reasoningSignatureCache, AggregatedKey)
  /\ MapGet(reasoningSignatureCache, AggregatedKey).val = ThoughtSignatures[1]
  /\ ThoughtSignatures[1] # ThoughtSignatures[Len(ThoughtSignatures)]

\* a body with signatures was aggregated for a request without session id
SignaturesOfUnknownSessionDropped ==
  /\ trPc = "responded" /\ ~SessionAndModelKnown
  /\ ThoughtSignatures # << >> /\ ToolCallSignatures # << >>

(***************************************************************************)
(* The stores step by step, with the value each get returned and a clock   *)
(* that also stops at an age of exactly the TTL.                           *)
(***************************************************************************)
LookupSafeNames == {<<"a">>, <<"b">>}

LookupSessions == {"s1"}

LookupNext ==
  \/ \E n \in LookupSafeNames : \E o \in CacheOriginalNames(n) :
       setToolNameMapping("s1", CacheModel, n, o) /\ CacheFrame
  \/ \E n \in LookupSafeNames : getOriginalToolNameReturns("s1", CacheModel, n) /\ CacheFrame
  \/ \E s \in LookupSessions, sig \in CacheSignatures :
       setReasoningSignature(s, CacheModel, sig) /\ CacheFrame
  \/ \E s \in LookupSessions : getReasoningSignatureReturns(s, CacheModel) /\ CacheFrame
  \/ \E s \in LookupSessions, sig \in CacheSignatures :
       setToolSignature(s, CacheModel, sig) /\ CacheFrame
  \/ \E s \in LookupSessions : getToolSignatureReturns(s, CacheModel) /\ CacheFrame
  \/ \E p \in Pressures : MemoryPressureSignal(p) /\ CacheFrame
  \/ \E d \in {ENTRY_TTL_MS, ENTRY_TTL_MS + 1} : Tick(d) /\ CacheFrame

LookupSpec == CacheSpecInit /\ [][LookupNext]_vars

\* the store holds an entry for the key that is not older than the TTL
Live(m, key) == MapHas(m, key) /\ now - MapGet(m, key).ts <= ENTRY_TTL_MS

\* the store holds an entry for the key that is older than the TTL
Expired(m, key) == MapHas(m, key) /\ now - MapGet(m, key).ts > ENTRY_TTL_MS

\* the store after a get of the key: without the entry when it had expired,
\* with every other entry as it was and in the same order
AfterGet(m, key) ==
  IF Expired(m, key) THEN SelectSeq(m, LAMBDA e : e.key # key) ELSE m

\* C26: a get returns the stored value when the entry exists and now minus
\* its timestamp does not exceed the TTL, and null when the entry is absent
\* or older; a get on an expired entry deletes that entry and changes no
\* other entry, in any of the three stores.
GetReturnsLiveEntryAndDeletesExpired ==
  [][ /\ \A n \in LookupSafeNames :
           getOriginalToolNameReturns("s1", CacheModel, n) =>
             LET key == makeKey("s1", CacheModel, n) IN
             /\ returned'.value = IF Live(toolNameMap, key)
                                    THEN Str(MapGet(toolNameMap, key).val) ELSE Null
             /\ toolNameMap' = AfterGet(toolNameMap, key)
             /\ reasoningSignatureCache' = reasoningSignatureCache
             /\ toolSignatureCache' = toolSignatureCache
      /\ \A s \in LookupSessions :
           getReasoningSignatureReturns(s, CacheModel) =>
             LET key == makeSigKey(s, CacheModel) IN
             /\ returned'.value = IF Live(reasoningSignatureCache, key)
                                    THEN Str(<<MapGet(reasoningSignatureCache, key).val>>)
                                    ELSE Null
             /\ reasoningSignatureCache' = AfterGet(reasoningSignatureCache, key)
             /\ toolNameMap' = toolNameMap
             /\ toolSignatureCache' = toolSignatureCache
      /\ \A s \in LookupSessions :
           getToolSignatureReturns(s, CacheModel) =>
             LET key == makeSigKey(s, CacheModel) IN
             /\ returned'.value = IF Live(toolSignatureCache, key)
                                    THEN Str(<<MapGet(toolSignatureCache, key).val>>)
                                    ELSE Null
             /\ toolSignatureCache' = AfterGet(toolSignatureCache, key)
             /\ toolNameMap' = toolNameMap
             /\ reasoningSignatureCache' = reasoningSignatureCache
    ]_vars

\* a get of a tool name answered null once the TTL had passed, its entry is
\* not in the store, and another entry that has expired too is still there
ExpiredLookupLeftOtherEntries ==
  /\ returned.call = "getOriginalToolName" /\ returned.value = Null
  /\ ~MapHas(toolNameMap, returned.key)
  /\ \E i \in 1..Len(toolNameMap) : now - toolNameMap[i].ts > ENTRY_TTL_MS

\* a get answered with the signature of an entry whose age is exactly the TTL
EntryAtTtlReturned ==
  /\ returned.call = "getReasoningSignature" /\ returned.value # Null
  /\ MapHas(reasoningSignatureCache, returned.key)
  /\ now - MapGet(reasoningSignatureCache, returned.key).ts = ENTRY_TTL_MS

\* the size a store of that ceiling is cut down to under the pressure
PressureLimit(ceiling, pressure) ==
  CASE pressure = "medium"   -> ceiling \div 2
    [] pressure = "high"     -> ceiling \div 4
    [] pressure = "critical" -> 0
    [] OTHER                 -> ceiling

\* after holds the last entries of before, as they were: what is gone are
\* the entries inserted first
OldestRemoved(before, after) ==
  /\ Len(after) <= Len(before)
  /\ after = SubSeq(before, (Len(before) - Len(after)) + 1, Len(before))

ShrunkUnder(before, after, ceiling, pressure) ==
  /\ Len(after) <= PressureLimit(ceiling, pressure)
  /\ OldestRemoved(before, after)
  /\ pressure = "normal" => after = before

\* a set of a new key with a non-empty value adds an entry while the store
\* is below its ceiling
GrowsBelowCeiling(before, after, ceiling, key) ==
  (~MapHas(before, key) /\ Len(before) < ceiling) =>
    (Len(after) = Len(before) + 1 /\ MapHas(after, key))

\* C27: whatever a store holds, immediately after a memory-pressure signal
\* it holds at most half its ceiling (medium), a quarter of it (high) or
\* nothing (critical); the entries removed are the oldest-inserted ones, a
\* normal-pressure signal removes nothing, and later sets grow the store
\* again up to its ceiling.
PressureShrinksStoresOldestFirst ==
  /\ \A p \in Pressures :
       /\ ShrunkUnder(toolNameMap, toolNameCleanup(toolNameMap, p), MAX_ENTRIES, p)
       /\ ShrunkUnder(reasoningSignatureCache,
                      signatureCleanup(reasoningSignatureCache, MAX_REASONING_ENTRIES, p),
                      MAX_REASONING_ENTRIES, p)
       /\ ShrunkUnder(toolSignatureCache,
                      signatureCleanup(toolSignatureCache, MAX_TOOL_ENTRIES, p),
                      MAX_TOOL_ENTRIES, p)
  /\ \A n \in LookupSafeNames :
       GrowsBelowCeiling(toolNameMap,
                         setToolNameMappingIn(toolNameMap, now, "s1", CacheModel, n,
                                              n \o <<"!">>),
                         MAX_ENTRIES, makeKey("s1", CacheModel, n))
  /\ \A s \in LookupSessions :
       /\ GrowsBelowCeiling(reasoningSignatureCache,
                            setSignatureIn(reasoningSignatureCache, MAX_REASONING_ENTRIES,
                                           now, s, CacheModel, "sigA"),
                            MAX_REASONING_ENTRIES, makeSigKey(s, CacheModel))
       /\ GrowsBelowCeiling(toolSignatureCache,
                            setSignatureIn(toolSignatureCache, MAX_TOOL_ENTRIES,
                                           now, s, CacheModel, "sigA"),
                            MAX_TOOL_ENTRIES, makeSigKey(s, CacheModel))

\* before any entry can have expired, a tool name that a get had found is
\* gone and a name mapped after it is the one entry left: a signal of medium
\* pressure cut the full store to half its ceiling
OlderEntryShedUnderPressure ==
  /\ now = 0
  /\ returned.call = "getOriginalToolName" /\ returned.value # Null
  /\ ~MapHas(toolNameMap, returned.key)
  /\ Len(toolNameMap) = 1 /\ MAX_ENTRIES \div 2 = 1

(***************************************************************************)
(* The stores under sets and gets alone, with one key more than each       *)
(* ceiling admits: the clock stands still, so that an entry can only leave *)
(* a store when a set pushes the store over its ceiling.                   *)
(***************************************************************************)
EvictionNext ==
  \/ \E n \in CacheSafeNames : \E o \in CacheOriginalNames(n) :
       setToolNameMapping("s1", CacheModel, n, o) /\ CacheFrame
  \/ \E n \in CacheSafeNames : getOriginalToolNameReturns("s1", CacheModel, n) /\ CacheFrame
  \/ \E s \in CacheReasoningSessions, sig \in CacheSignatures :
       setReasoningSignature(s, CacheModel, sig) /\ CacheFrame
  \/ \E s \in CacheReasoningSessions :
       getReasoningSignatureReturns(s, CacheModel) /\ CacheFrame
  \/ \E s \in CacheToolSessions, sig \in CacheSignatures :
       setToolSignature(s, CacheModel, sig) /\ CacheFrame
  \/ \E s \in CacheToolSessions : getToolSignatureReturns(s, CacheModel) /\ CacheFrame

EvictionSpec == CacheSpecInit /\ [][EvictionNext]_vars

\* the store after a set of the key to the value: the entry is written at
\* its place, or last when the key is new, and when that makes more entries
\* than the ceiling, the first ones are gone until the size is the ceiling
AfterSet(before, after, ceiling, key, value) ==
  LET entry == [key |-> key, val |-> value, ts |-> now]
      written == IF MapHas(before, key)
                   THEN [i \in 1..Len(before) |->
                           IF before[i].key = key THEN entry ELSE before[i]]
                   ELSE before \o <<entry>>
  IN  /\ OldestRemoved(written, after)
      /\ Len(after) = IF Len(written) > ceiling THEN ceiling ELSE Len(written)
      /\ MapHas(after, key) /\ MapGet(after, key) = entry

\* C28: whatever a store holds, a set with a non-empty value that pushes it
\* over its ceiling removes entries in insertion order, oldest first, until
\* the size equals the ceiling, and never the entry just written; a set with
\* an empty value, or of a sanitized name equal to the original, leaves the
\* store unchanged.
SetEvictsOldestAndKeepsWritten ==
  /\ \A n \in CacheSafeNames :
       /\ AfterSet(toolNameMap,
                   setToolNameMappingIn(toolNameMap, now, "s1", CacheModel, n,
                                        n \o <<"!">>),
                   MAX_ENTRIES, makeKey("s1", CacheModel, n), n \o <<"!">>)
       /\ \A o \in {<< >>, n} :
            setToolNameMappingIn(toolNameMap, now, "s1", CacheModel, n, o) = toolNameMap
  /\ \A s \in CacheReasoningSessions :
       /\ AfterSet(reasoningSignatureCache,
                   setSignatureIn(reasoningSignatureCache, MAX_REASONING_ENTRIES, now,
                                  s, CacheModel, "sigA"),
                   MAX_REASONING_ENTRIES, makeSigKey(s, CacheModel), "sigA")
       /\ setSignatureIn(reasoningSignatureCache, MAX_REASONING_ENTRIES, now,
                         s, CacheModel, "") = reasoningSignatureCache
  /\ \A s \in CacheToolSessions :
       /\ AfterSet(toolSignatureCache,
                   setSignatureIn(toolSignatureCache, MAX_TOOL_ENTRIES, now,
                                  s, CacheModel, "sigA"),
                   MAX_TOOL_ENTRIES, makeSigKey(s, CacheModel), "sigA")
       /\ setSignatureIn(toolSignatureCache, MAX_TOOL_ENTRIES, now,
                         s, CacheModel, "") = toolSignatureCache

\* a tool name that a get had found is gone from the full store, whose last
\* entry is the one written last
OldestEvictedBySet ==
  /\ returned.call = "getOriginalToolName" /\ returned.value # Null
  /\ ~MapHas(toolNameMap, returned.key)
  /\ Len(toolNameMap) = MAX_ENTRIES

\* the same for a reasoning signature
OldestSignatureEvictedBySet ==
  /\ returned.call = "getReasoningSignature" /\ returned.value # Null
  /\ ~MapHas(reasoningSignatureCache, returned.key)
  /\ Len(reasoningSignatureCache) = MAX_REASONING_ENTRIES

(***************************************************************************)
(* The stream parser on responses of up to MaxPayloads payloads, each on   *)
(* its line: tool calls with and without finish reason, thoughts with two  *)
(* different signatures and with none.  A second call runs at the same     *)
(* time on a response whose thoughts carry no signature.                   *)
(***************************************************************************)
MaxPayloads == 3

ParsePayloads ==
  { <<"{", "f", "}">>,
    <<"{", "g", "F", "u", "}">>,
    <<"{", "H", "x", ";", "h", "y", ";", "}">>,
    <<"{", "h", "z", ";", "G", "w", ";", "h", "v", ";", "}">>,
    <<"{", "t", "a", ";", "F", "}">>,
    <<"{", "f", "F", "}">> }

ParseInputs ==
  {joinLines([i \in 1..Len(ls) |-> DATA_PREFIX \o ls[i]]) :
     ls \in SeqsUpTo(ParsePayloads, MaxPayloads)}

UnsignedInput == joinLines(<<DATA_PREFIX \o <<"{", "h", "y", ";", "f", "}">>>>)

ParseBodies == {StreamBody, [StreamBody EXCEPT !.sessionId = ""]}

ParseInit ==
  /\ CacheInit
  /\ trPc = "off" /\ reqIn = NoRequest /\ requestBody \in ParseBodies
  /\ data = NoData /\ response = NoResponse
  /\ useAxios = FALSE
  /\ lineBufferPool = << >>
  /\ lineBuffers = << >>
  /\ \E input \in ParseInputs :
       req = [r \in 1..MaxRequests |->
                IF r = 1 THEN [NoReq EXCEPT !.input = input]
                ELSE IF r = 2 THEN [NoReq EXCEPT !.input = UnsignedInput]
                ELSE [NoReq EXCEPT !.pc = "off"]]
  /\ SanitizeIdle /\ StoreIdle /\ RetryIdle /\ ServerIdle

\* the upstream answers 200 and sends whole lines
ParseNext ==
  \/ \E r \in 1..2 : generateAssistantResponse(r) /\ StreamFrame
  \/ \E r \in 1..2 : onStart(r, 200) /\ StreamFrame
  \/ \E r \in 1..2 : \E k \in 1..Len(req[r].upstream) :
       req[r].upstream[k] = "\n" /\ onData(r, k) /\ StreamFrame
  \/ \E r \in 1..2 : onEnd(r) /\ StreamFrame

ParseSpec == ParseInit /\ [][ParseNext]_vars

RECURSIVE concatAll(_)
concatAll(seqs) ==
  IF seqs = << >> THEN << >> ELSE seqs[1] \o concatAll(Tail(seqs))

\* the payloads call r has received so far
Payloads(r) ==
  LET received == IF req[r].pc \in {"idle", "off"} THEN << >>
                  ELSE SubSeq(req[r].input, 1, Len(req[r].input) - Len(req[r].upstream))
      lines == splitLines(received, 1, << >>).lines
  IN  [i \in 1..Len(lines) |->
         JSONparse(SubSeq(lines[i], DATA_PREFIX_LEN + 1, Len(lines[i])))]

\* the ids of the function-call parts of a payload, in part order
CallIds(payload) ==
  LET calls == SelectSeq(payload.parts, LAMBDA part : part.kind = "functionCall")
  IN  [j \in 1..Len(calls) |-> calls[j].id]

\* the ids of the function calls that arrived up to payload i and after
\* the last payload before it that carried a finish reason
Accumulated(payloads, i) ==
  LET finished == {j \in 1..(i - 1) : payloads[j].finishReason}
      from == IF finished = {} THEN 1
              ELSE (CHOOSE j \in finished : \A l \in finished : l <= j) + 1
  IN  concatAll([j \in 1..((i - from) + 1) |-> CallIds(payloads[(from + j) - 1])])

\* an event reduced to its type and the ids of its tool calls
Shape(type, ids) == [type |-> type, ids |-> ids]

\* the events of the payload, so reduced: one per thought or text part,
\* then the tool calls, then the usage
PayloadShapes(payloads, i) ==
  LET own == SelectSeq(payloads[i].parts, LAMBDA part : part.kind # "functionCall")
  IN  [j \in 1..Len(own) |->
         Shape(IF own[j].kind = "thought" THEN "reasoning" ELSE "text", << >>)]
      \o (IF payloads[i].finishReason /\ Accumulated(payloads, i) # << >>
            THEN <<Shape("tool_calls", Accumulated(payloads, i))>> ELSE << >>)
      \o (IF payloads[i].finishReason /\ payloads[i].usage
            THEN <<Shape("usage", << >>)>> ELSE << >>)

EventShapes(r) ==
  [k \in 1..Len(req[r].events) |->
     Shape(req[r].events[k].type,
           [j \in 1..Len(req[r].events[k].tool_calls) |->
              req[r].events[k].tool_calls[j].id])]

\* C29: function-call parts are never emitted one by one: no tool_calls
\* event is emitted before a payload carrying a finish reason; that payload
\* produces exactly one tool_calls event holding all tool calls accumulated
\* so far in arrival order (none when no call was accumulated), after the
\* events of its own parts and before its usage event, and the accumulator
\* is empty afterwards so that no tool call is emitted twice.
ToolCallsEmittedOnceAtFinish ==
  \A r \in 1..2 :
    LET payloads == Payloads(r) IN
    /\ EventShapes(r) =
         concatAll([i \in 1..Len(payloads) |-> PayloadShapes(payloads, i)])
    /\ [j \in 1..Len(req[r].state.toolCalls) |-> req[r].state.toolCalls[j].id]
         = IF payloads = << >> \/ payloads[Len(payloads)].finishReason THEN << >>
           ELSE Accumulated(payloads, Len(payloads))

\* a call arrived in one payload, another with the finish reason and usage
\* in the next, and both went out in one event before the usage
TwoCallsInOneEvent ==
  /\ req[1].pc = "returned"
  /\ Len(req[1].events) = 2
  /\ req[1].events[1].type = "tool_calls"
  /\ Len(req[1].events[1].tool_calls) = 2
  /\ req[1].events[1].tool_calls[1].id = "c9"
  /\ req[1].events[1].tool_calls[2].id = "c8"
  /\ req[1].events[2].type = "usage"
  /\ req[1].state.toolCalls = << >>

\* two payloads with a finish reason, each with its own tool call
TwoFinishedPayloads ==
  /\ req[1].pc = "returned"
  /\ Len(req[1].events) = 2
  /\ \A k \in 1..2 : /\ req[1].events[k].type = "tool_calls"
                     /\ Len(req[1].events[k].tool_calls) = 1

\* the thought parts call r has received so far, in order
ThoughtParts(r) ==
  LET payloads == Payloads(r) IN
  SelectSeq(concatAll([i \in 1..Len(payloads) |-> payloads[i].parts]),
            LAMBDA part : part.kind = "thought")

ReasoningEvents(r) == SelectSeq(req[r].events, LAMBDA e : e.type = "reasoning")

\* the signature of the k-th thought part, or of the latest thought part
\* before it that has one, or none
SignatureAt(thoughts, k) ==
  LET signed == {j \in 1..k : thoughts[j].thoughtSignature # ""} IN
  IF signed = {} THEN ""
  ELSE thoughts[CHOOSE j \in signed : \A l \in signed : l <= j].thoughtSignature

ParseKey == makeSigKey(requestBody.sessionId, requestBody.model)

\* C30: every reasoning event carries the thoughtSignature of its own part
\* when the part has one, otherwise the signature of the latest earlier
\* thought part of the same response that had one, otherwise null; each
\* signature seen on a thought part is written to the reasoning-signature
\* store under (session, model) when both are known, and the signature of one
\* call is never visible to the parse state of another call.
ReasoningEventsCarryLatestSignature ==
  /\ \A r \in 1..2 :
       LET thoughts == ThoughtParts(r)
           events == ReasoningEvents(r)
       IN  /\ Len(events) = Len(thoughts)
           /\ \A k \in 1..Len(events) :
                events[k].thoughtSignature = SignatureAt(thoughts, k)
           /\ req[r].state.reasoningSignature = SignatureAt(thoughts, Len(thoughts))
  /\ LET thoughts == ThoughtParts(1)
         seen == SignatureAt(thoughts, Len(thoughts))
     IN  IF requestBody.sessionId # "" /\ requestBody.model # << >> /\ seen # ""
           THEN /\ MapHas(reasoningSignatureCache, ParseKey)
                /\ MapGet(reasoningSignatureCache, ParseKey).val = seen
           ELSE reasoningSignatureCache = << >>

\* a thought without signature took the signature of the latest signed
\* thought before it, not of the first, while the thought of the other call
\* went out without any
LaterSignatureInherited ==
  /\ Len(ReasoningEvents(1)) >= 3
  /\ \E k \in 3..Len(ReasoningEvents(1)) :
       /\ ThoughtParts(1)[k].thoughtSignature = ""
       /\ ReasoningEvents(1)[k].thoughtSignature = "sigB"
       /\ ReasoningEvents(1)[1].thoughtSignature = "sigS"
  /\ Len(ReasoningEvents(2)) = 1
  /\ ReasoningEvents(2)[1].thoughtSignature = ""
  /\ MapHas(reasoningSignatureCache, ParseKey)
  /\ MapGet(reasoningSignatureCache, ParseKey).val = "sigB"

\* signatures were seen for a request without session id
StreamedSignaturesOfUnknownSession ==
  /\ requestBody.sessionId = ""
  /\ \E k \in 1..Len(ReasoningEvents(1)) : ReasoningEvents(1)[k].thoughtSignature # ""

(***************************************************************************)
(* Lines the parser discards, under StreamSpec.                            *)
(***************************************************************************)
\* the line carries the data prefix and a payload that JSON.parse accepts
IsPayloadLine(line) ==
  /\ startsWith(line, DATA_PREFIX)
  /\ JSONparse(SubSeq(line, DATA_PREFIX_LEN + 1, Len(line))).ok

DiscardedLines == {line \in StreamLines : ~IsPayloadLine(line)}

\* the parse state of call 1 and the stores, as processChunk hands them on
ParseStateNow ==
  [state |-> req[1].state, events |-> req[1].events, toolNameMap |-> toolNameMap,
   reasoningSignatureCache |-> reasoningSignatureCache,
   toolSignatureCache |-> toolSignatureCache]

\* C31: a line without the data prefix, or whose payload is not valid JSON,
\* emits no event, leaves the per-response parse state and the stores
\* unchanged, and does not stop the processing of the lines that follow it.
DiscardedLineChangesNothing ==
  \A bad \in DiscardedLines :
    /\ parseAndEmitStreamChunk(bad, ParseStateNow, requestBody.sessionId,
                               requestBody.model) = ParseStateNow
    /\ \A next \in StreamLines :
         parseLines(<<bad, next>>, 1, ParseStateNow, requestBody.sessionId,
                    requestBody.model)
           = parseLines(<<next>>, 1, ParseStateNow, requestBody.sessionId,
                        requestBody.model)

\* the response was a payload cut short, then a payload with a signed
\* thought, a tool call, a finish reason and usage: the events of the second
\* line went out, and nothing else
LineAfterDiscardedLineParsed ==
  /\ req[1].pc = "returned" /\ req[1].attempt = 0
  /\ req[1].input = joinLines(<<DATA_PREFIX \o <<"{", "t", "x">>,
                                DATA_PREFIX \o <<"{", "H", "x", ";", "f", "F", "u", "}">>>>)
  /\ Len(req[1].events) = 3
  /\ req[1].events[1].type = "reasoning"
  /\ req[1].events[2].type = "tool_calls"
  /\ req[1].events[3].type = "usage"

\* a line without the prefix was the whole response and nothing was emitted
UnprefixedLineDiscarded ==
  /\ req[1].pc = "returned" /\ req[1].attempt = 0
  /\ req[1].input = joinLines(<<<<":", "h", "b">>>>)
  /\ req[1].events = << >>
  /\ req[1].state = NoState

(***************************************************************************)
(* The thinking budget, under BodySpec.                                    *)
(***************************************************************************)
EffortTable == [low |-> 1024, medium |-> 16000, high |-> 32000]

ThinkingBudget == requestBody.generationConfig.thinkingConfig.thinkingBudget

\* the budget the request asks for: the explicit one, else the one of the
\* effort named in the table, else the default
RequestedBudget ==
  LET parameters == reqIn.parameters IN
  IF parameters.thinking_budget.defined THEN parameters.thinking_budget.value
  ELSE IF parameters.reasoning_effort \in DOMAIN EffortTable
    THEN EffortTable[parameters.reasoning_effort]
  ELSE defaultThinkingBudget

\* C32: with thinking enabled the thinking budget is the request's explicit
\* thinking_budget whenever one is given (including 0), otherwise the table
\* value of the named reasoning_effort, otherwise the configured default; an
\* effort name outside the table yields the configured default.
BudgetFromOverrideEffortOrDefault ==
  (trPc = "translated" /\ requestBody.enableThinking) => ThinkingBudget = RequestedBudget

\* the same for the requests whose effort name is not a member every object
\* inherits
BudgetOfOrdinaryEffortName ==
  (/\ trPc = "translated" /\ requestBody.enableThinking
   /\ reqIn.parameters.reasoning_effort \notin ObjectPrototypeNames)
    => ThinkingBudget = RequestedBudget

\* an effort that names an inherited member, no explicit budget: the budget
\* is that member and not the default
InheritedMemberAsBudget ==
  /\ trPc = "translated" /\ requestBody.enableThinking
  /\ reqIn.parameters.reasoning_effort = "constructor"
  /\ ~reqIn.parameters.thinking_budget.defined
  /\ ThinkingBudget = ObjectPrototypeMember

\* an explicit budget of 0 with an effort named as well: the budget is 0
ExplicitZeroBudgetWins ==
  /\ trPc = "translated" /\ requestBody.enableThinking
  /\ reqIn.parameters.thinking_budget = [defined |-> TRUE, value |-> 0]
  /\ reqIn.parameters.reasoning_effort = "high"
  /\ ThinkingBudget = 0

(***************************************************************************)
(* The TokenStore under two callers whose readAll, writeAll and            *)
(* mergeActiveTokens calls overlap, on a file that holds two accounts, an  *)
(* empty list or no JSON array, with reads and writes that can fail and a  *)
(* clock that lets the cache expire.                                       *)
(***************************************************************************)
MemToken(n) ==
  IF n = 1 THEN Account("r1", "n1", TRUE, "s1")
  ELSE IF n = 2 THEN Account("r2", "n2", TRUE, "s2")
  ELSE Account("r3", "n3", TRUE, "s3")

StoreFiles ==
  {[array |-> TRUE, tokens |-> StoredAccounts],
   [array |-> TRUE, tokens |-> << >>],
   [array |-> FALSE, tokens |-> << >>]}

MergeInputs ==
  {[activeTokens |-> <<MemToken(1), MemToken(2)>>, tokenToUpdate |-> NoToken],
   [activeTokens |-> <<MemToken(1), MemToken(2)>>, tokenToUpdate |-> MemToken(1)],
   [activeTokens |-> <<MemToken(1), MemToken(2)>>, tokenToUpdate |-> MemToken(2)],
   [activeTokens |-> <<MemToken(3)>>, tokenToUpdate |-> MemToken(3)],
   [activeTokens |-> << >>, tokenToUpdate |-> NoToken]}

WriteInputs == {<< >>, StoredAccounts}

StoreInit ==
  /\ file \in StoreFiles
  /\ tokenStore = NewTokenStore
  /\ inFlight = [c \in StoreCalls |-> NoCall]
  /\ CacheInit /\ SanitizeIdle /\ TranslateIdle /\ RetryIdle /\ StreamIdle /\ ServerIdle

StoreNext ==
  \/ \E c \in StoreCalls : readAll(c)
  \/ \E c \in StoreCalls, tokens \in WriteInputs : writeAll(c, tokens)
  \/ \E c \in StoreCalls, m \in MergeInputs :
       mergeActiveTokens(c, m.activeTokens, m.tokenToUpdate)
  \/ \E c \in StoreCalls, ok \in BOOLEAN : readFile(c, ok)
  \/ \E c \in StoreCalls, ok \in BOOLEAN : atomicWrite(c, ok)
  \/ \E c \in StoreCalls : Settle(c)
  \/ StoreTick

StoreSpec == StoreInit /\ [][StoreNext]_vars

Merging(c) == inFlight[c].op = "mergeActiveTokens"

\* C33: a mergeActiveTokens call whose readAll failed and returned the empty
\* list returns without calling writeAll, whatever the other calls on the
\* store do meanwhile.
MergeSkipsWriteAfterFailedRead ==
  \A c \in StoreCalls :
    (Merging(c) /\ inFlight[c].readFailed /\ inFlight[c].allTokens = << >>)
      => (inFlight[c].pc = "returned" /\ ~inFlight[c].wrote)

\* A merge with active tokens skipped its write after a failed read while the
\* other call was writing.
MergeSkippedBesideWriter ==
  \E c, d \in StoreCalls :
    /\ c # d
    /\ Merging(c) /\ inFlight[c].readFailed /\ inFlight[c].allTokens = << >>
    /\ inFlight[c].activeTokens # << >>
    /\ inFlight[c].pc = "returned"
    /\ inFlight[d].pc = "writing"

\* The refresh tokens a mergeActiveTokens call updates: that of tokenToUpdate
\* when one is given, else those of the active tokens.
UpdatedRefreshTokens(call) ==
  IF call.tokenToUpdate # NoToken THEN {call.tokenToUpdate.refresh_token}
  ELSE {call.activeTokens[i].refresh_token : i \in 1..Len(call.activeTokens)}

HandedToWriteAll(c) == Merging(c) /\ (inFlight[c].pc = "writing" \/ inFlight[c].wrote)

\* C34: the list a mergeActiveTokens call hands to writeAll after reading a
\* non-empty list has the records of the list read, in the same places;
\* a record differs from the one read only where its refresh_token is one
\* the call updates, and no record takes the sessionId of an in-memory token.
MergeChangesOnlyUpdatedRecords ==
  \A c \in StoreCalls :
    (HandedToWriteAll(c) /\ inFlight[c].allTokens # << >>) =>
      LET read == inFlight[c].allTokens
          written == inFlight[c].tokens
      IN /\ Len(written) = Len(read)
         /\ \A i \in 1..Len(read) :
              /\ written[i].refresh_token = read[i].refresh_token
              /\ written[i].sessionId = read[i].sessionId
              /\ written[i] # read[i] =>
                   read[i].refresh_token \in UpdatedRefreshTokens(inFlight[c])

\* A merge updated the first account and wrote the disabled second account
\* back as it was.
DisabledAccountWrittenBack ==
  \E c \in StoreCalls :
    /\ Merging(c) /\ inFlight[c].wrote
    /\ inFlight[c].allTokens = StoredAccounts
    /\ inFlight[c].tokenToUpdate = MemToken(1)
    /\ inFlight[c].tokens[1] = Account("r1", "n1", TRUE, "")
    /\ inFlight[c].tokens[2] = StoredAccounts[2]
    /\ file.tokens = inFlight[c].tokens

HoldsUpdate(tokens, token) ==
  \E i \in 1..Len(tokens) :
    /\ tokens[i].refresh_token = token.refresh_token
    /\ tokens[i].access_token = token.access_token

\* Both callers ran mergeActiveTokens, the first for the first account and the
\* second for the second, on a list that holds both, and both wrote.
BothMergesWrote ==
  \A c \in StoreCalls :
    /\ Merging(c) /\ inFlight[c].wrote
    /\ inFlight[c].tokenToUpdate = MemToken(c)
    /\ Len(inFlight[c].allTokens) = Len(StoredAccounts)

\* C38: after two mergeActiveTokens calls that each update a different token
\* have both written, the file and the cache hold the updates of both.
MergesKeepBothUpdates ==
  BothMergesWrote =>
    \A c \in StoreCalls :
      /\ HoldsUpdate(file.tokens, MemToken(c))
      /\ HoldsUpdate(tokenStore.cache.tokens, MemToken(c))

\* The file holds the list of the call that wrote last, without the update of
\* the other.
UpdateOverwritten ==
  /\ BothMergesWrote
  /\ \E c \in StoreCalls :
       /\ file.tokens = inFlight[c].tokens
       /\ \E d \in StoreCalls : ~HoldsUpdate(file.tokens, MemToken(d))

(***************************************************************************)
(* Requests of one session and model that declare tools by names that      *)
(* sanitization leaves alone ("a_a", "b") and by a name it changes ("a a", *)
(* sent upstream as "a_a"), each followed or not by an answer that calls   *)
(* "a_a" or "b".                                                           *)
(***************************************************************************)
VerbatimNames == {<<"a", "_", "a">>, <<"b">>}

DeclaredNames == VerbatimNames \cup {<<"a", " ", "a">>}

VerbatimRequests ==
  { [messages |-> << >>, model |-> <<"gemini", "-2.5-flash">>, tools |-> ts,
     sessionId |-> "s1", parameters |-> NoParameters, config |-> NoConfig] :
      ts \in SeqsUpTo(DeclaredNames, MaxTools) }

VerbatimAnswers ==
  { [parts |-> <<UPart("functionCall", << >>, "", "c9", n)>>, usageMetadata |-> NoUsage] :
      n \in VerbatimNames }

\* The exchange is over and the next request of the session can come.
NextExchange ==
  /\ trPc = "responded"
  /\ trPc' = "idle"
  /\ reqIn' = NoRequest
  /\ requestBody' = NoBody
  /\ data' = NoData
  /\ response' = NoResponse
  /\ UNCHANGED cacheVars

VerbatimNext ==
  \/ NextExchange /\ ToolNameFrame
  \/ \E rq \in VerbatimRequests : generateRequestBody(rq) /\ ToolNameFrame
  \/ \E d \in VerbatimAnswers : generateAssistantResponseNoStream(d) /\ ToolNameFrame
  \/ trPc = "translated" /\ Tick(ENTRY_TTL_MS + 1) /\ UNCHANGED trVars /\ ToolNameFrame

VerbatimSpec == ToolNameInit /\ [][VerbatimNext]_vars

DeclaredVerbatim(rq, n) ==
  /\ \E i \in 1..Len(rq.tools) : rq.tools[i] = n
  /\ sanitizeToolName(Str(n)) = n

RenderedAs(n) ==
  /\ trPc' = "responded"
  /\ Len(response'.toolCalls) = 1
  /\ response'.toolCalls[1].name = n

\* C35: a function call by a name that the request declared and that
\* sanitization leaves unchanged reaches the client under that name, whatever
\* the session and model declared before.
VerbatimNameRendered ==
  [][(trPc = "translated" /\ trPc' = "responded") =>
      \A n \in VerbatimNames :
        (DeclaredVerbatim(reqIn, n) /\ data'.parts[1].name = n) => RenderedAs(n)
    ]_vars

\* the same while the store holds no unexpired entry under that name
VerbatimNameRenderedWithoutEntry ==
  [][(trPc = "translated" /\ trPc' = "responded") =>
      \A n \in VerbatimNames :
        (DeclaredVerbatim(reqIn, n) /\ data'.parts[1].name = n /\ ~MappingLive(n))
          => RenderedAs(n)
    ]_vars

\* The request declared "a_a" alone, the upstream called "a_a", and the
\* client got a call of "a a", a tool of an earlier request.
VerbatimNameReplaced ==
  /\ trPc = "responded"
  /\ reqIn.tools = <<<<"a", "_", "a">>>>
  /\ data.parts[1].name = <<"a", "_", "a">>
  /\ response.toolCalls[1].name = <<"a", " ", "a">>

\* C40: on the response every data frame is three adjacent writes, the
\* prefix, the JSON of the chunk and the suffix; no heartbeat and no other
\* write stands between them, however the timer's ticks fall among the
\* upstream's events.
DataFramesContiguous ==
  \A i \in 1..Len(res.writes) :
    /\ res.writes[i].kind = "prefix" =>
         /\ i + 2 <= Len(res.writes)
         /\ res.writes[i + 1].kind = "chunk"
         /\ res.writes[i + 2].kind = "suffix"
    /\ res.writes[i].kind = "chunk" => (i > 1 /\ res.writes[i - 1].kind = "prefix")
    /\ res.writes[i].kind = "suffix" => (i > 2 /\ res.writes[i - 1].kind = "chunk")

\* a heartbeat was written after one data frame and before the next
HeartbeatBetweenFrames ==
  \E i \in 1..Len(res.writes) :
    /\ i + 2 <= Len(res.writes)
    /\ res.writes[i].kind = "suffix"
    /\ res.writes[i + 1].kind = "heartbeat"
    /\ res.writes[i + 2].kind = "prefix"

\* the payloads of the newline-terminated lines of the body of the streaming
\* request that carry a finish reason while function calls are accumulated
FinishingPayloads ==
  LET payloads == Payloads(1) IN
  {j \in 1..Len(payloads) :
     payloads[j].finishReason /\ Accumulated(payloads, j) # << >>}

ToolCallChunks == SelectSeq(ChunkWrites, LAMBDA w : w.delta = "tool_calls")

StreamCompleted == srv.pc = "done" /\ srv.stream

\* C36: when a streaming request completes, the client was sent one
\* tool_calls chunk for each newline-terminated line whose payload carries a
\* finish reason while function calls are accumulated, and no other; the
\* final chunk has finish_reason "tool_calls" when there was such a line and
\* "stop" when there was none, whatever function calls and unterminated
\* bytes the body held.
ToolCallsNeedFinishedLine ==
  StreamCompleted =>
    /\ Len(ToolCallChunks) = Cardinality(FinishingPayloads)
    /\ Payloaded[Len(Payloaded) - 1].finish_reason
         = (IF FinishingPayloads # {} THEN "tool_calls" ELSE "stop")
    /\ srv.hasToolCall <=> ToolCallChunks # << >>

\* The body held a function call and then a finish reason on a line that no
\* newline ended: the stream completed with "stop" and without a tool_calls
\* chunk.
UnfinishedToolCallDropped ==
  /\ StreamCompleted
  /\ req[1].input # << >>
  /\ req[1].input[Len(req[1].input)] # "\n"
  /\ \E j \in 1..Len(Payloads(1)) : CallIds(Payloads(1)[j]) # << >>
  /\ ToolCallChunks = << >>
  /\ Payloaded[Len(Payloaded) - 1].finish_reason = "stop"

\* The function call came in one payload and the finish reason in a later
\* one: the stream completed with a tool_calls chunk and "tool_calls".
ToolCallFinishedLater ==
  /\ StreamCompleted
  /\ Len(Payloads(1)) = 2
  /\ ~Payloads(1)[1].finishReason
  /\ Len(ToolCallChunks) = 1
  /\ Payloaded[Len(Payloaded) - 1].finish_reason = "tool_calls"

\* what the streaming parser leaves in the stores when it is handed the parts
\* of the aggregated body, for the same session and model, from the stores
\* as they were before the body (empty)
StreamedParts ==
  emitParts(data.parts, 1,
            [state |-> NoState, events |-> << >>, toolNameMap |-> toolNameMap,
             reasoningSignatureCache |-> << >>, toolSignatureCache |-> << >>],
            requestBody.sessionId, requestBody.model)

\* the signature a store holds for the session and model of the request, ""
\* for none
StoredSignature(store) ==
  IF MapHas(store, AggregatedKey) THEN MapGet(store, AggregatedKey).val ELSE ""

SameSignaturesStored ==
  /\ StoredSignature(reasoningSignatureCache)
       = StoredSignature(StreamedParts.reasoningSignatureCache)
  /\ StoredSignature(toolSignatureCache)
       = StoredSignature(StreamedParts.toolSignatureCache)

\* C37: after the aggregator processed a body, the Signature Continuity Store
\* holds for (session, model) the reasoning signature and the tool signature
\* that the streaming parser leaves there for the same parts.
AggregatedAndStreamedSignaturesAgree ==
  trPc = "responded" => SameSignaturesStored

\* no two thought parts and no two function calls of the body carry
\* different signatures
OneSignaturePerKind ==
  /\ \A i, j \in 1..Len(ThoughtSignatures) : ThoughtSignatures[i] = ThoughtSignatures[j]
  /\ \A i, j \in 1..Len(ToolCallSignatures) : ToolCallSignatures[i] = ToolCallSignatures[j]

\* the two paths agree on the bodies with at most one signature of each kind
SingleSignaturesAgree ==
  (trPc = "responded" /\ OneSignaturePerKind) => SameSignaturesStored

\* Two function calls with different signatures were aggregated: the store
\* holds the first, the streaming parser leaves the second.
ToolSignaturesDiffer ==
  /\ trPc = "responded" /\ SessionAndModelKnown
  /\ Len(ToolCallSignatures) = 2
  /\ StoredSignature(toolSignatureCache) = ToolCallSignatures[1]
  /\ StoredSignature(StreamedParts.toolSignatureCache) = ToolCallSignatures[2]
  /\ ToolCallSignatures[1] # ToolCallSignatures[2]

(***************************************************************************)
(* The stores under sets that rewrite existing keys with other values at   *)
(* later times, between memory-pressure signals: three tool names for a    *)
(* ceiling of MAX_ENTRIES, two original names for each, two signatures.    *)
(***************************************************************************)
RewriteSafeNames == {<<"a">>, <<"b">>, <<"c">>}

RewriteOriginalNames(safeName) == {safeName \o <<"!">>, safeName \o <<"?">>}

RewriteSignatures == {"sigA", "sigB"}

RewriteNext ==
  \/ \E n \in RewriteSafeNames : \E o \in RewriteOriginalNames(n) :
       setToolNameMapping("s1", CacheModel, n, o) /\ CacheFrame
  \/ \E s \in LookupSessions, sig \in RewriteSignatures :
       setReasoningSignature(s, CacheModel, sig) /\ CacheFrame
  \/ \E p \in Pressures : MemoryPressureSignal(p) /\ CacheFrame
  \/ Tick(1) /\ CacheFrame

RewriteSpec == CacheSpecInit /\ [][RewriteNext]_vars

\* after is before with the entry of the key replaced where it stood
RewrittenInPlace(before, after, key, value) ==
  /\ Len(after) = Len(before)
  /\ \A i \in 1..Len(before) :
       after[i] = IF before[i].key = key
                    THEN [key |-> key, val |-> value, ts |-> now]
                    ELSE before[i]

\* C39: whatever a store holds, a set of a key it holds replaces the value
\* and the timestamp of the entry where it stands and changes nothing else;
\* in the store so rewritten a memory-pressure signal and a set of a new key
\* at the ceiling still remove the entries from the front of the insertion
\* order, the rewritten one included.
RewriteKeepsEvictionOrder ==
  /\ \A n \in RewriteSafeNames : \A o \in RewriteOriginalNames(n) :
       LET key == makeKey("s1", CacheModel, n)
           after == setToolNameMappingIn(toolNameMap, now, "s1", CacheModel, n, o)
       IN  MapHas(toolNameMap, key) =>
             /\ RewrittenInPlace(toolNameMap, after, key, o)
             /\ \A p \in Pressures : OldestRemoved(after, toolNameCleanup(after, p))
             /\ \A m \in RewriteSafeNames :
                  LET new == makeKey("s1", CacheModel, m) IN
                  (~MapHas(after, new) /\ Len(after) = MAX_ENTRIES) =>
                    setToolNameMappingIn(after, now, "s1", CacheModel, m, m \o <<"!">>)
                      = Tail(after) \o <<[key |-> new, val |-> m \o <<"!">>, ts |-> now]>>
  /\ \A s \in LookupSessions : \A sig \in RewriteSignatures :
       LET key == makeSigKey(s, CacheModel)
           after == setSignatureIn(reasoningSignatureCache, MAX_REASONING_ENTRIES, now,
                                   s, CacheModel, sig)
       IN  MapHas(reasoningSignatureCache, key) =>
             /\ RewrittenInPlace(reasoningSignatureCache, after, key, sig)
             /\ \A p \in Pressures :
                  OldestRemoved(after, signatureCleanup(after, MAX_REASONING_ENTRIES, p))

\* The store is at its ceiling and the entry inserted first was written
\* last, with the other original name.
OldestEntryRewrittenLast ==
  /\ Len(toolNameMap) = MAX_ENTRIES
  /\ toolNameMap[1].key = makeKey("s1", CacheModel, <<"a">>)
  /\ toolNameMap[1].val = <<"a", "?">>
  /\ \A i \in 2..Len(toolNameMap) : toolNameMap[i].ts < toolNameMap[1].ts

====
